---- MODULE Spec2Model ----
(***************************************************************************)
(* Model of the JD CNC G-code generator's geometry pipeline:               *)
(* SVGParser.get_paths_by_color with its nested smart_stitch_subpaths      *)
(* (src/svg_parser.py) and the CNCDialog handlers that centre and drag     *)
(* the stitched toolpaths (src/gcode_generator.py); and, each followed on  *)
(* its own, a call of SVGParser._extract_path_data, of                     *)
(* SVGParser._flatten_cubic_bezier and of CNCDialog.center_paths_on_bed.   *)
(*                                                                         *)
(* Coordinates are integers in units of 0.05 mm, so that 0.1 mm = 2,       *)
(* the stitch tolerance 0.3 mm = 6 and the duplicate-point epsilon 1e-6 mm *)
(* lies strictly between 0 and 1 unit: on this grid two points are closer  *)
(* than the epsilon exactly when their coordinates are equal.  Distances   *)
(* are compared through their squares (math.hypot is monotone in them).    *)
(*                                                                         *)
(* A point is <<x, y, tag>>.  x and y are what the program stores; tag is  *)
(* a provenance mark the program does not have (which input the point was  *)
(* created from).  No modelled computation reads the tag.                  *)
(***************************************************************************)
EXTENDS Integers, Sequences, FiniteSets, TLC

VARIABLES
    pc,                 \* position of the modelled call
    subpaths,           \* smart_stitch_subpaths: the caller's argument list
    unused,             \* smart_stitch_subpaths: pool of subpaths not yet chained
    stitched,           \* smart_stitch_subpaths: finished toolpaths
    stitched_path,      \* smart_stitch_subpaths: the chain under construction
    element,            \* get_paths_by_color: the loop variable
    seen,               \* get_paths_by_color: elements the selection has yielded
    all_black_subpaths, \* get_paths_by_color
    all_red_subpaths,   \* get_paths_by_color
    cut_paths,          \* get_paths_by_color: first returned value
    score_paths,        \* get_paths_by_color: second returned value
    selection,          \* self.svg.selection, fixed while the dialog is open
    generated_cut_paths,    \* CNCDialog field
    generated_score_paths,  \* CNCDialog field
    gcode_generated,        \* CNCDialog field
    is_object_dragging,     \* CNCDialog field
    drag_last_mouse,        \* CNCDialog: (drag_last_mouse_x, drag_last_mouse_y)
    gcode_preview_drag,     \* CNCDialog field
    gcode_preview_last,     \* CNCDialog field
    gcode_preview_offset,   \* CNCDialog field
    gcode_preview_zoom,     \* CNCDialog field, in units of 1 / ZoomUnit
    scrolled,               \* the scroll events handled: how many, and the direction of the last
    progress_animating,     \* CNCDialog field
    progress_haze,          \* the haze widget is shown
    generate_button,        \* the Generate button is sensitive
    auto_center_button,     \* the Auto Center button is sensitive
    stops,                  \* calls of stop_progress made so far
    gcode_text,             \* what gcode_text_buffer holds
    logged,                 \* the message _auto_center_paths logged last
    threads,                \* the generate_gcode_bg threads started so far
    idle,                   \* callbacks queued with GLib.idle_add, oldest first
    events,                 \* user events handled so far
    arr,                \* _extract_path_data: path.to_arrays()
    consumed,           \* _extract_path_data: commands of arr the loop has taken
    extractor,          \* _extract_path_data: subpaths, current, last, last_ctrl
    returned,           \* _extract_path_data: the returned list
    flatten_args,       \* _flatten_cubic_bezier: p0, p1, p2, p3, flatness
    calls,              \* _flatten_cubic_bezier: pending calls of recursive
    accepted,           \* _flatten_cubic_bezier: segments returned as [p0, p3]
    flatten_result,     \* _flatten_cubic_bezier: the returned list
    place_args,         \* placement: the collected paths and the configured bed and margin
    stored_paths,       \* placement: generated_cut_paths, generated_score_paths
    out_of_bounds,      \* generate_gcode_bg: the local out_of_bounds
    config_file,        \* ConfigManager: what the file at config_file holds
    config_loaded,      \* ConfigManager: what load_config returned last
    config_saved,       \* ConfigManager: the argument of the last save_config
    center_args,        \* center_paths_on_bed: cut_paths, score_paths, bed_width, bed_height
    center_result       \* center_paths_on_bed: the returned pair

stitchVars == <<subpaths, unused, stitched, stitched_path>>

pathsVars == <<element, seen, all_black_subpaths, all_red_subpaths, cut_paths, score_paths>>

viewVars == <<is_object_dragging, drag_last_mouse, gcode_preview_drag,
              gcode_preview_last, gcode_preview_offset, gcode_preview_zoom, scrolled,
              events>>

progressVars == <<progress_animating, progress_haze, generate_button, auto_center_button,
                  stops>>

dialogVars == <<selection, generated_cut_paths, generated_score_paths, gcode_generated,
                gcode_text, logged, threads, idle, viewVars, progressVars>>

extractVars == <<arr, consumed, extractor, returned>>

flattenVars == <<flatten_args, calls, accepted, flatten_result>>

centerVars == <<center_args, center_result>>

placeVars == <<place_args, stored_paths, out_of_bounds>>

configVars == <<config_file, config_loaded, config_saved>>

unitVars == <<configVars, placeVars, extractVars, flattenVars, centerVars>>

vars == <<pc, stitchVars, pathsVars, dialogVars, unitVars>>

(***************************************************************************)
(* Sequence helpers (Python list primitives).                              *)
(***************************************************************************)
Last(s) == s[Len(s)]

Reversed(s) == [i \in 1..Len(s) |-> s[Len(s) + 1 - i]]

\* slip: pop(0) in place of pop(i)
RemoveFirst(s, i) == Tail(s)

RemoveAt(s, i) == SubSeq(s, 1, i - 1) \o SubSeq(s, i + 1, Len(s))

\* list.sort / sorted are stable: s goes in front of the first element in
\* the set "later" of those that compare greater, or at the end
InsertBefore(sorted, s, later) ==
    LET pos == IF later = {} THEN Len(sorted) + 1
               ELSE CHOOSE j \in later : \A k \in later : j <= k
    IN  SubSeq(sorted, 1, pos - 1) \o <<s>> \o SubSeq(sorted, pos, Len(sorted))

(***************************************************************************)
(* smart_stitch_subpaths                                                   *)
(***************************************************************************)
\* tolerance=0.3 (mm) in units of 0.05 mm
tolerance == 6

\* slip: the y difference is left out of the distance
HypotSqXOnly(a, b) == (a[1] - b[1]) * (a[1] - b[1])

\* square of math.hypot(a[0] - b[0], a[1] - b[1])
HypotSq(a, b) == (a[1] - b[1]) * (a[1] - b[1]) + (a[2] - b[2]) * (a[2] - b[2])

\* slip: the list is left in the order it was passed in
SortByLengthNone(s) == s

\* unused.sort(key=lambda s: -len(s))
RECURSIVE SortByLength(_)
SortByLength(s) ==
    IF s = <<>> THEN <<>>
    ELSE LET front == SortByLength(SubSeq(s, 1, Len(s) - 1))
         IN  InsertBefore(front, Last(s),
                          {j \in 1..Len(front) : Len(front[j]) < Len(Last(s))})

\* One iteration of "for idx, sub in enumerate(unused)"; best.idx = 0 stands
\* for best_idx None, best.dist holds the square of best_dist.
ScanStep(best, idx, sub, last_pt) ==
    LET d_start == HypotSq(sub[1], last_pt)
        d_end   == HypotSq(Last(sub), last_pt)
        b1      == IF best.idx = 0 \/ d_start < best.dist
                   THEN [idx |-> idx, dist |-> d_start, reverse |-> FALSE]
                   ELSE best
    IN  IF d_end < b1.dist
        THEN [idx |-> idx, dist |-> d_end, reverse |-> TRUE]
        ELSE b1

RECURSIVE ScanBest(_, _, _, _)
ScanBest(pool, last_pt, idx, best) ==
    IF idx > Len(pool) THEN best
    ELSE ScanBest(pool, last_pt, idx + 1, ScanStep(best, idx, pool[idx], last_pt))

\* best_idx, best_dist, best_reverse after the for loop
FindBest(pool, last_pt) ==
    ScanBest(pool, last_pt, 1, [idx |-> 0, dist |-> 0, reverse |-> FALSE])

\* slip: <= in place of <
WithinToleranceInclusive(best) == best.idx # 0 /\ best.dist <= tolerance * tolerance

\* best_dist is not None and best_dist < tolerance
WithinTolerance(best) == best.idx # 0 /\ best.dist < tolerance * tolerance

\* next_sub after the optional reversal
Oriented(sub, reverse) == IF reverse THEN Reversed(sub) ELSE sub

\* slip: the stitch tolerance in place of the epsilon
SamePointLoose(a, b) == HypotSq(a, b) < tolerance * tolerance

\* math.hypot(...) < 1e-6
SamePoint(a, b) == HypotSq(a, b) = 0

\* stitched_path after extend
Extended(path, next_sub) ==
    IF SamePoint(next_sub[1], Last(path))
    THEN path \o Tail(next_sub)
    ELSE path \o next_sub

\* The inner "while unused" loop run to its end from a given chain and pool.
RECURSIVE ChainFrom(_, _)
ChainFrom(path, pool) ==
    IF pool = <<>> THEN [path |-> path, pool |-> pool]
    ELSE LET best == FindBest(pool, Last(path))
         IN  IF WithinTolerance(best)
             THEN ChainFrom(Extended(path, Oriented(pool[best.idx], best.reverse)),
                            RemoveAt(pool, best.idx))
             ELSE [path |-> path, pool |-> pool]

\* The outer "while unused" loop run to its end.
RECURSIVE StitchAll(_, _)
StitchAll(pool, done) ==
    IF pool = <<>> THEN done
    ELSE LET c == ChainFrom(Head(pool), Tail(pool))
         IN  StitchAll(c.pool, Append(done, c.path))

\* The whole call, as get_paths_by_color uses it.
SmartStitch(list) ==
    IF list = <<>> THEN <<>> ELSE StitchAll(SortByLength(list), <<>>)

(***************************************************************************)
(* SVGParser._flatten_cubic_bezier and _flatten_quadratic_bezier.          *)
(*                                                                         *)
(* Control points are pairs <<x, y>> of integers and the arithmetic is     *)
(* exact: the curves drawn as inputs are those whose halves (and, for a    *)
(* quadratic, thirds) are whole numbers at every level of the recursion,   *)
(* so that \div is the division the program performs.  A squared distance  *)
(* is a fraction <<numerator, denominator>>.  A flatness is a pair         *)
(* <<m, e>> standing for m * 2**e; the one place where the double          *)
(* precision of the program's numbers is kept is flatness**2, which is 0.0 *)
(* when the product underflows.                                            *)
(***************************************************************************)
\* dist2
Dist2(a, b) == (a[1] - b[1]) * (a[1] - b[1]) + (a[2] - b[2]) * (a[2] - b[2])

\* point_line_dist2: with t = dot / dist2(b, a) clamped to [0, 1] and
\* proj = a + t (b - a), dist2(p, proj) is dist2(p, a) for t = 0,
\* dist2(p, b) for t = 1 and dist2(p, a) - dot * dot / dist2(b, a) between
PointLineDist2(p, a, b) ==
    IF a = b THEN <<Dist2(p, a), 1>>
    ELSE LET len2 == Dist2(b, a)
             dot == (p[1] - a[1]) * (b[1] - a[1]) + (p[2] - a[2]) * (b[2] - a[2])
         IN  IF dot <= 0 THEN <<Dist2(p, a), 1>>
             ELSE IF dot >= len2 THEN <<Dist2(p, b), 1>>
             ELSE <<Dist2(p, a) * len2 - dot * dot, len2>>

\* 2**min_exponent is the least positive double; a positive product below
\* it is 0.0
min_exponent == -1074

\* flatness**2, for a flatness of flatness[1] * 2**flatness[2] units
Squared(flatness) ==
    IF 2 * flatness[2] < min_exponent THEN 0
    ELSE flatness[1] * flatness[1] * 2^(2 * flatness[2])

\* slip: <= in place of <
FlatEnoughInclusive(p0, p1, p2, p3, flatness) ==
    LET d1 == PointLineDist2(p1, p0, p3)
        d2 == PointLineDist2(p2, p0, p3)
    IN  /\ d1[1] <= Squared(flatness) * d1[2]
        /\ d2[1] <= Squared(flatness) * d2[2]

\* max(d1, d2) < flatness**2
FlatEnough(p0, p1, p2, p3, flatness) ==
    LET d1 == PointLineDist2(p1, p0, p3)
        d2 == PointLineDist2(p2, p0, p3)
    IN  /\ d1[1] < Squared(flatness) * d1[2]
        /\ d2[1] < Squared(flatness) * d2[2]

\* ((a[0]+b[0])/2, (a[1]+b[1])/2)
Mid(a, b) == <<(a[1] + b[1]) \div 2, (a[2] + b[2]) \div 2>>

\* the arguments of the two calls "left = recursive(p0, p01, p012, p0123)"
\* and "right = recursive(p0123, p123, p23, p3)"
Halves(p0, p1, p2, p3) ==
    LET p01 == Mid(p0, p1)
        p12 == Mid(p1, p2)
        p23 == Mid(p2, p3)
        p012 == Mid(p01, p12)
        p123 == Mid(p12, p23)
        p0123 == Mid(p012, p123)
    IN  <<<<p0, p01, p012, p0123>>, <<p0123, p123, p23, p3>>>>

\* left[:-1] + right
Joined(left, right) == SubSeq(left, 1, Len(left) - 1) \o right

\* the one member of a singleton set (written where a value is to be
\* computed once before it is used)
The(S) == CHOOSE v \in S : TRUE

\* recursive, for the calls that return
RECURSIVE Recursive(_, _, _, _, _)
Recursive(p0, p1, p2, p3, flatness) ==
    IF FlatEnough(p0, p1, p2, p3, flatness) THEN <<p0, p3>>
    ELSE The({ Joined(left, right) :
                 left \in {Recursive(h[1][1], h[1][2], h[1][3], h[1][4], flatness) :
                              h \in {Halves(p0, p1, p2, p3)}},
                 right \in {Recursive(h[2][1], h[2][2], h[2][3], h[2][4], flatness) :
                              h \in {Halves(p0, p1, p2, p3)}} })

FlattenCubicBezier(p0, p1, p2, p3, flatness) == Recursive(p0, p1, p2, p3, flatness)

\* p + 2/3 * (q - p)
TwoThirds(p, q) == <<p[1] + (2 * (q[1] - p[1])) \div 3, p[2] + (2 * (q[2] - p[2])) \div 3>>

FlattenQuadraticBezier(p0, p1, p2, flatness) ==
    FlattenCubicBezier(p0, TwoThirds(p0, p1), TwoThirds(p2, p1), p2, flatness)

(***************************************************************************)
(* SVGParser._extract_path_data.  An element's d is the array              *)
(* path.to_arrays() yields after to_absolute() and the composed transform; *)
(* its numbers are document units.  The field call of the loop state is    *)
(* not in the program: it records the flattener call the last iteration    *)
(* made (None if it made none).                                            *)
(***************************************************************************)
\* self.scale: document units per coordinate unit
scale == 2

\* the default flatness=0.1 (mm) of _extract_path_data
flatness_default == <<2, 0>>

\* last_ctrl = None
None == <<>>

ExtractStart ==
    [subpaths |-> <<>>, current |-> <<>>, last |-> <<0, 0>>, last_ctrl |-> None,
     call |-> None]

\* pts[1:] with the mark of the element
TaggedTail(pts, tag) == [k \in 1..(Len(pts) - 1) |-> <<pts[k + 1][1], pts[k + 1][2], tag>>]

\* slip: the reflection is taken about the control point
ReflectedAboutControl(last, last_ctrl) ==
    IF last_ctrl # None
    THEN <<2 * last_ctrl[1] - last[1], 2 * last_ctrl[2] - last[2]>>
    ELSE last

\* the first control point of S and T
Reflected(last, last_ctrl) ==
    IF last_ctrl # None
    THEN <<2 * last[1] - last_ctrl[1], 2 * last[2] - last_ctrl[2]>>
    ELSE last

\* slip: range(steps) in place of range(1, steps + 1)
InterpolatedFromStart(last, x, y, tag) ==
    LET steps == 5
    IN  [i \in 1..steps |->
            <<(last[1] * (steps - (i - 1)) + x * (i - 1)) \div steps,
              (last[2] * (steps - (i - 1)) + y * (i - 1)) \div steps,
              tag>>]

\* for i in range(1, steps + 1): t = i / steps;
\* inter_x = last[0] * (1 - t) + x * t (and inter_y alike)
Interpolated(last, x, y, tag) ==
    LET steps == 5
    IN  [i \in 1..steps |->
            <<(last[1] * (steps - i) + x * i) \div steps,
              (last[2] * (steps - i) + y * i) \div steps,
              tag>>]

\* slip: a letter outside the chain forgets the prior control point
SkippedClearing(st) == [st EXCEPT !.last_ctrl = None, !.call = None]

\* no branch of the if/elif chain matches cmd: the iteration does nothing
Skipped(st) == [st EXCEPT !.call = None]

\* slip: the last point is repeated
ClosedOnLast(current) ==
    IF current # <<>> THEN Append(current, current[Len(current)]) ELSE current

\* if current: current.append(current[0])
Closed(current) ==
    IF current # <<>> THEN Append(current, current[1]) ELSE current

\* one iteration of "for cmd, params in arr"; tag marks the points created
ExtractStep(st, c, tag) ==
    CASE c.cmd = "M" ->
            LET x == c.params[1] \div scale
                y == c.params[2] \div scale
            IN  [subpaths  |-> IF st.current # <<>>
                               THEN Append(st.subpaths, st.current)
                               ELSE st.subpaths,
                 current   |-> <<<<x, y, tag>>>>,
                 last      |-> <<x, y>>,
                 last_ctrl |-> None,
                 call      |-> None]
      [] c.cmd = "L" ->
            LET x == c.params[1] \div scale
                y == c.params[2] \div scale
            IN  [st EXCEPT !.current = Append(@, <<x, y, tag>>),
                           !.last = <<x, y>>,
                           !.last_ctrl = None,
                           !.call = None]
      [] c.cmd = "H" ->
            LET x == c.params[1] \div scale
            IN  [st EXCEPT !.current = Append(@, <<x, st.last[2], tag>>),
                           !.last = <<x, st.last[2]>>,
                           !.last_ctrl = None,
                           !.call = None]
      [] c.cmd = "V" ->
            LET y == c.params[1] \div scale
            IN  [st EXCEPT !.current = Append(@, <<st.last[1], y, tag>>),
                           !.last = <<st.last[1], y>>,
                           !.last_ctrl = None,
                           !.call = None]
      [] c.cmd = "C" ->
            LET p0 == st.last
                p1 == <<c.params[1] \div scale, c.params[2] \div scale>>
                p2 == <<c.params[3] \div scale, c.params[4] \div scale>>
                p3 == <<c.params[5] \div scale, c.params[6] \div scale>>
                pts == FlattenCubicBezier(p0, p1, p2, p3, flatness_default)
            IN  [st EXCEPT !.current = @ \o TaggedTail(pts, tag),
                           !.last = p3,
                           !.last_ctrl = p2,
                           !.call = <<p0, p1, p2, p3>>]
      [] c.cmd = "S" ->
            LET p0 == st.last
                p1 == Reflected(st.last, st.last_ctrl)
                p2 == <<c.params[1] \div scale, c.params[2] \div scale>>
                p3 == <<c.params[3] \div scale, c.params[4] \div scale>>
                pts == FlattenCubicBezier(p0, p1, p2, p3, flatness_default)
            IN  [st EXCEPT !.current = @ \o TaggedTail(pts, tag),
                           !.last = p3,
                           !.last_ctrl = p2,
                           !.call = <<p0, p1, p2, p3>>]
      [] c.cmd = "Q" ->
            LET p0 == st.last
                p1 == <<c.params[1] \div scale, c.params[2] \div scale>>
                p2 == <<c.params[3] \div scale, c.params[4] \div scale>>
                pts == FlattenQuadraticBezier(p0, p1, p2, flatness_default)
            IN  [st EXCEPT !.current = @ \o TaggedTail(pts, tag),
                           !.last = p2,
                           !.last_ctrl = p1,
                           !.call = <<p0, p1, p2>>]
      [] c.cmd = "T" ->
            LET p0 == st.last
                p1 == Reflected(st.last, st.last_ctrl)
                p2 == <<c.params[1] \div scale, c.params[2] \div scale>>
                pts == FlattenQuadraticBezier(p0, p1, p2, flatness_default)
            IN  [st EXCEPT !.current = @ \o TaggedTail(pts, tag),
                           !.last = p2,
                           !.last_ctrl = p1,
                           !.call = <<p0, p1, p2>>]
      [] c.cmd = "A" ->
            LET x == c.params[6] \div scale
                y == c.params[7] \div scale
            IN  [st EXCEPT !.current = @ \o Interpolated(st.last, x, y, tag),
                           !.last = <<x, y>>,
                           !.last_ctrl = None,
                           !.call = None]
      [] c.cmd = "Z" ->
            [st EXCEPT !.current = Closed(@), !.call = None]
      [] OTHER -> Skipped(st)

RECURSIVE ExtractLoop(_, _, _, _)
ExtractLoop(st, a, i, tag) ==
    IF i > Len(a) THEN st
    ELSE The({ExtractLoop(next, a, i + 1, tag) : next \in {ExtractStep(st, a[i], tag)}})

\* slip: the subpath still open after the loop is not stored
ExtractResultStoredOnly(st) == st.subpaths

\* the statements after the loop: the returned subpaths
ExtractResult(st) ==
    IF st.current # <<>> THEN Append(st.subpaths, st.current) ELSE st.subpaths

ExtractPathData(el) == ExtractResult(ExtractLoop(ExtractStart, el.d, 1, el.style))

(***************************************************************************)
(* SVGParser.get_paths_by_color                                            *)
(*                                                                         *)
(* A style is [has_stroke, stroke]; a stroke value is [text, rgb], where   *)
(* text is "", "none" or "rgb" (any colour text) and rgb the channels      *)
(* inkex.Color gives for it.  Points are tagged with the style of the      *)
(* element they were extracted from.                                       *)
(***************************************************************************)
Rgb(r, g, b) == [text |-> "rgb", rgb |-> <<r, g, b>>]

NoColor(text) == [text |-> text, rgb |-> <<0, 0, 0>>]

\* style.get('stroke', '#000000')
StrokeOf(style) == IF style.has_stroke THEN style.stroke ELSE Rgb(0, 0, 0)

\* slip: <= in place of <
IsBlackInclusive(color) == \A i \in 1..Len(color) : color[i] <= 20

\* all(c < 20 for c in color)
IsBlack(color) == \A i \in 1..Len(color) : color[i] < 20

\* color[0] > 200 and color[1] < 50 and color[2] < 50
IsRed(color) == color[1] > 200 /\ color[2] < 50 /\ color[3] < 50

\* the branch the loop body takes for an element
Branch(el) ==
    IF ~el.is_path THEN "skip"
    ELSE LET stroke_color == StrokeOf(el.style)
         IN  IF stroke_color.text = "" \/ stroke_color.text = "none" THEN "skip"
             ELSE IF IsBlack(stroke_color.rgb) THEN "black"
             ELSE IF IsRed(stroke_color.rgb) THEN "red"
             ELSE "skip"

\* sorted(..., key=lambda sub: (sub[0][0], sub[0][1]) if sub else (0,0))
SortKey(sub) == IF sub = <<>> THEN <<0, 0>> ELSE <<sub[1][1], sub[1][2]>>

KeyLess(a, b) == a[1] < b[1] \/ (a[1] = b[1] /\ a[2] < b[2])

\* slip: the collected order is kept
SortByFirstPointNone(list) == list

RECURSIVE SortByFirstPoint(_)
SortByFirstPoint(list) ==
    IF list = <<>> THEN <<>>
    ELSE LET front == SortByFirstPoint(SubSeq(list, 1, Len(list) - 1))
         IN  InsertBefore(front, Last(list),
                 {j \in 1..Len(front) : KeyLess(SortKey(Last(list)), SortKey(front[j]))})

\* loop body: the list for one colour after the element el
Collected(list, el, colour) ==
    IF Branch(el) = colour THEN list \o ExtractPathData(el) ELSE list

\* lines 78-84 for one colour: sort, stitch, wrap in a one-element list
StitchedRole(list) == <<SmartStitch(SortByFirstPoint(list))>>

RECURSIVE CollectAll(_, _, _)
CollectAll(sel, n, colour) ==
    IF n = 0 THEN <<>> ELSE Collected(CollectAll(sel, n - 1, colour), sel[n], colour)

\* the whole call on a selection: (cut_paths, score_paths)
GetPathsByColor(sel) ==
    <<StitchedRole(CollectAll(sel, Len(sel), "black")),
      StitchedRole(CollectAll(sel, Len(sel), "red"))>>

\* loop body for one element of the selection
ProcessElement(el) ==
    /\ element' = el
    /\ seen' = seen + 1
    /\ all_black_subpaths' = Collected(all_black_subpaths, el, "black")
    /\ all_red_subpaths' = Collected(all_red_subpaths, el, "red")
    /\ UNCHANGED <<pc, cut_paths, score_paths>>
    /\ UNCHANGED stitchVars
    /\ UNCHANGED <<dialogVars, unitVars>>

\* after the loop: sort, stitch, return [stitched_black], [stitched_red]
PathsStitch ==
    /\ pc = "paths_loop"
    /\ all_black_subpaths' = SortByFirstPoint(all_black_subpaths)
    /\ all_red_subpaths' = SortByFirstPoint(all_red_subpaths)
    /\ cut_paths' = StitchedRole(all_black_subpaths)
    /\ score_paths' = StitchedRole(all_red_subpaths)
    /\ pc' = "paths_done"
    /\ UNCHANGED <<element, seen>>
    /\ UNCHANGED stitchVars
    /\ UNCHANGED <<dialogVars, unitVars>>

\* the values the variables of get_paths_by_color have outside a call
NoElement == [is_path |-> FALSE, style |-> [has_stroke |-> FALSE, stroke |-> NoColor("")], d |-> <<>>]

PathsIdle ==
    /\ element = NoElement
    /\ seen = 0
    /\ all_black_subpaths = <<>>
    /\ all_red_subpaths = <<>>
    /\ cut_paths = <<>>
    /\ score_paths = <<>>

(***************************************************************************)
(* CNCDialog: the stored toolpaths and the handlers that replace them.     *)
(*                                                                         *)
(* generated_cut_paths and generated_score_paths hold None or a list of    *)
(* paths, a path being a list of subpaths; the handlers below test them    *)
(* for truth only, and None and [] are both written <<>>.  The G-code a    *)
(* call of GCodeLogic.generate returns is written as the pair of path      *)
(* lists it was given.  Handlers run to completion on the GUI thread; the  *)
(* statements of generate_gcode_bg are steps of their own.                 *)
(***************************************************************************)
\* bed_width, bed_height, safety_margin as configured: 300, 200 and 5 mm
bed_w == 6000
bed_h == 4000
margin == 100

\* "if paths:" / "if not paths:"
Truthy(paths) == paths # <<>>

\* [pt for path in paths for sub in path for pt in sub], as a set
PointsOf(paths) ==
    UNION {UNION {{paths[i][j][k] : k \in 1..Len(paths[i][j])} :
                      j \in 1..Len(paths[i])} : i \in 1..Len(paths)}

MinOf(S) == CHOOSE m \in S : \A n \in S : m <= n

MaxOf(S) == CHOOSE m \in S : \A n \in S : m >= n

\* Coordinates and offsets are Python floats, which hold 53 significant bits
\* and round every sum and difference to the nearest value they can hold
\* (ties to the even significand).  The floats followed here hold mantissa
\* significant bits of a whole number of coordinate units, so that sums which
\* must be rounded are within reach; on smaller values the arithmetic is
\* exact, as it is for floats.
mantissa == 14

RECURSIVE Pow2(_)
Pow2(n) == IF n = 0 THEN 1 ELSE 2 * Pow2(n - 1)

\* the spacing of the floats around the magnitude a (u is a power of two)
RECURSIVE Ulp(_, _)
Ulp(a, u) == IF a < Pow2(mantissa) * u THEN u ELSE Ulp(a, 2 * u)

\* a >= 0 rounded to the nearest multiple of u, ties to the even multiple
Rounded(a, u) ==
    LET q == a \div u
        r == a % u
    IN  u * (IF 2 * r < u THEN q
             ELSE IF 2 * r > u THEN q + 1
             ELSE IF q % 2 = 0 THEN q ELSE q + 1)

\* the float nearest to x
Float(x) ==
    The({IF v < 0 THEN -The({Rounded(-v, u) : u \in {Ulp(-v, 1)}})
                  ELSE The({Rounded(v, u) : u \in {Ulp(v, 1)}}) : v \in {x}})

\* slip: y + offset_x in place of y + offset_y
ShiftPathOneOffset(path, offset_x, offset_y) ==
    [j \in 1..Len(path) |->
        [k \in 1..Len(path[j]) |->
            <<Float(path[j][k][1] + offset_x), Float(path[j][k][2] + offset_x), path[j][k][3]>>]]

\* shift_path, local to center_paths_on_bed
ShiftPath(path, offset_x, offset_y) ==
    [j \in 1..Len(path) |->
        [k \in 1..Len(path[j]) |->
            <<Float(path[j][k][1] + offset_x), Float(path[j][k][2] + offset_y), path[j][k][3]>>]]

\* slip: every shifted path is returned as a cut path
CenterPathsOnBedMerged(cut, score, w, h) ==
    LET all_paths == cut \o score
        all_points == PointsOf(all_paths)
    IN  IF all_points = {} THEN <<cut, score>>
        ELSE LET min_x == MinOf({pt[1] : pt \in all_points})
                 max_x == MaxOf({pt[1] : pt \in all_points})
                 min_y == MinOf({pt[2] : pt \in all_points})
                 max_y == MaxOf({pt[2] : pt \in all_points})
                 offset_x == Float(Float(w - Float(max_x - min_x)) \div 2 - min_x)
                 offset_y == Float(Float(h - Float(max_y - min_y)) \div 2 - min_y)
             IN  <<[i \in 1..Len(all_paths) |-> ShiftPath(all_paths[i], offset_x, offset_y)],
                   <<>>>>

\* slip: the cut paths and the score paths are each centred on their own
CenterPathsOnBedEachRole(cut, score, w, h) ==
    LET Centred(list) ==
            LET all_points == PointsOf(list)
            IN  IF all_points = {} THEN list
                ELSE LET min_x == MinOf({pt[1] : pt \in all_points})
                         max_x == MaxOf({pt[1] : pt \in all_points})
                         min_y == MinOf({pt[2] : pt \in all_points})
                         max_y == MaxOf({pt[2] : pt \in all_points})
                         offset_x == Float(Float(w - Float(max_x - min_x)) \div 2 - min_x)
                         offset_y == Float(Float(h - Float(max_y - min_y)) \div 2 - min_y)
                     IN  [i \in 1..Len(list) |-> ShiftPath(list[i], offset_x, offset_y)]
    IN  <<Centred(cut), Centred(score)>>

\* center_paths_on_bed: (cut_paths, score_paths) shifted as one group.  The
\* halves are exact for the inputs drawn (even widths and heights).
CenterPathsOnBed(cut, score, w, h) ==
    LET all_points == PointsOf(cut \o score)
    IN  IF all_points = {} THEN <<cut, score>>
        ELSE LET min_x == MinOf({pt[1] : pt \in all_points})
                 max_x == MaxOf({pt[1] : pt \in all_points})
                 min_y == MinOf({pt[2] : pt \in all_points})
                 max_y == MaxOf({pt[2] : pt \in all_points})
                 svg_w == Float(max_x - min_x)
                 svg_h == Float(max_y - min_y)
                 offset_x == Float(Float(w - svg_w) \div 2 - min_x)
                 offset_y == Float(Float(h - svg_h) \div 2 - min_y)
             IN  <<[i \in 1..Len(cut) |-> ShiftPath(cut[i], offset_x, offset_y)],
                   [i \in 1..Len(score) |-> ShiftPath(score[i], offset_x, offset_y)]>>

\* _translate_paths
TranslatePaths(paths, dx, dy) ==
    IF ~Truthy(paths) THEN <<>>
    ELSE [i \in 1..Len(paths) |->
            [j \in 1..Len(paths[i]) |->
                [k \in 1..Len(paths[i][j]) |->
                    <<Float(paths[i][j][k][1] + dx), Float(paths[i][j][k][2] + dy),
                      paths[i][j][k][3]>>]]]

\* slip: < in place of <=, a point on the edge of the safe area is outside
OutOfBoundsOnStrict(cut, score, w, h, m) ==
    \E pt \in PointsOf(cut) \cup PointsOf(score) :
        ~(m < pt[1] /\ pt[1] < Float(w - m) /\
          m < pt[2] /\ pt[2] < Float(h - m))

\* the boundary check of generate_gcode_bg (lines 815-829) on a bed w by h
\* with the safety margin m: out_of_bounds
OutOfBoundsOn(cut, score, w, h, m) ==
    \E pt \in PointsOf(cut) \cup PointsOf(score) :
        ~(m <= pt[1] /\ pt[1] <= Float(w - m) /\
          m <= pt[2] /\ pt[2] <= Float(h - m))

\* the boundary check with the bed and the margin as configured
OutOfBounds(cut, score) == OutOfBoundsOn(cut, score, bed_w, bed_h, margin)

\* The preview is allocated 1000 by 700 pixels, so scale_base =
\* min(1000/300, 700/200) * 0.9 = 3 pixels per mm, that is PxNum / PxDen
\* pixels per coordinate unit, and both base offsets are 50.
PxNum == 3
PxDen == 20
offset_x_base == 50
offset_y_base == 50

\* gcode_preview_zoom is kept in hundredths: 1.0 is ZoomUnit
ZoomUnit == 100

\* n / d (d > 0) rounded to the nearest integer, ties to even: a quotient
\* of floats, kept to the unit
RoundDiv(n, d) ==
    LET a == IF n < 0 THEN -n ELSE n
        q == a \div d
        r == a % d
        nearest == IF 2 * r < d THEN q
                   ELSE IF 2 * r > d THEN q + 1
                   ELSE IF q % 2 = 0 THEN q ELSE q + 1
    IN  IF n < 0 THEN -nearest ELSE nearest

\* a screen coordinate of _get_current_paths_screen_bounds, times PxDen and
\* ZoomUnit
ScreenTimesDen(v, offset_base, pan) ==
    v * PxNum * gcode_preview_zoom + PxDen * ZoomUnit * (offset_base + pan)

\* button press, left: the click lies in the screen bounding box of the paths
ClickOnPaths(ev) ==
    LET all_points == PointsOf(generated_cut_paths) \cup PointsOf(generated_score_paths)
        xs == {pt[1] : pt \in all_points}
        ys == {pt[2] : pt \in all_points}
    IN  /\ all_points # {}
        /\ ScreenTimesDen(MinOf(xs), offset_x_base, gcode_preview_offset[1]) <= PxDen * ZoomUnit * ev[1]
        /\ PxDen * ZoomUnit * ev[1] <= ScreenTimesDen(MaxOf(xs), offset_x_base, gcode_preview_offset[1])
        /\ ScreenTimesDen(MinOf(ys), offset_y_base, gcode_preview_offset[2]) <= PxDen * ZoomUnit * ev[2]
        /\ PxDen * ZoomUnit * ev[2] <= ScreenTimesDen(MaxOf(ys), offset_y_base, gcode_preview_offset[2])

\* dx_screen / (scale_base * zoom), exact at zoom 1.0 for the pointer positions
\* drawn
BedUnits(d_screen) == RoundDiv(d_screen * PxDen * ZoomUnit, PxNum * gcode_preview_zoom)

\* an entry of the idle queue: the callback and its arguments
IdleCall(fn, gcode, cut, score) ==
    [fn |-> fn, gcode |-> gcode, cut_paths |-> cut, score_paths |-> score]

\* a generate_gcode_bg thread: its position ("done" once it has returned),
\* its local gcode and, between the boundary check and the call of generate,
\* the toolpaths the check has read (all_points_for_check)
Thread(at, gcode) == [pc |-> at, gcode |-> gcode, checked |-> <<>>]

\* the thread after its boundary check has let the toolpaths pass
Checked(cut, score) == [pc |-> "generate", gcode |-> <<>>, checked |-> <<cut, score>>]

\* start_progress
StartProgress ==
    /\ progress_animating' = TRUE
    /\ progress_haze' = TRUE
    /\ generate_button' = FALSE
    /\ auto_center_button' = FALSE
    /\ stops' = stops

\* _generate_gcode_from_current_paths: start_progress, then start the thread
GenerateGcodeFromCurrentPaths ==
    /\ StartProgress
    /\ threads' = Append(threads, Thread("test", <<>>))

\* the elements of a selection that are looked at
MaxElements == 2

Cmd(c, params) == [cmd |-> c, params |-> params]

Stroke(v) == [has_stroke |-> TRUE, stroke |-> v]

\* the document: a black line, a red line that starts where the black one
\* ends and is as high as the bed inside its margins (190 mm), and a grey
\* line that is neither cut nor score (document units)
Document ==
    << [is_path |-> TRUE, style |-> Stroke(Rgb(0, 0, 0)),
        d |-> <<Cmd("M", <<0, 0>>), Cmd("L", <<8, 0>>)>>],
       [is_path |-> TRUE, style |-> Stroke(Rgb(255, 0, 0)),
        d |-> <<Cmd("M", <<8, 0>>), Cmd("V", <<7600>>)>>],
       [is_path |-> TRUE, style |-> Stroke(Rgb(128, 128, 128)),
        d |-> <<Cmd("M", <<0, 0>>), Cmd("L", <<8, 0>>)>>] >>

\* the elements of the document at the positions <= k in chosen
RECURSIVE Selected(_, _)
Selected(chosen, k) ==
    IF k = 0 THEN <<>>
    ELSE IF k \in chosen THEN Append(Selected(chosen, k - 1), Document[k])
    ELSE Selected(chosen, k - 1)

\* effect() opens the dialog only on a selection that is not empty
DialogSelections ==
    {Selected(chosen, Len(Document)) :
        chosen \in {c \in SUBSET (1..Len(Document)) : c # {} /\ Cardinality(c) <= MaxElements}}

\* what _auto_center_paths computes from each selection the dialog can hold:
\* the lists of get_paths_by_color and their centred copies
Centerings ==
    {<<sel, The({<<paths, CenterPathsOnBed(paths[1], paths[2], bed_w, bed_h)>> :
                    paths \in {GetPathsByColor(sel)}})>> : sel \in DialogSelections}

\* _auto_center_paths: the values the three fields have after the call, and
\* the message logged
AutoCenterPaths ==
    LET computed == (CHOOSE entry \in Centerings : entry[1] = selection)[2]
        paths == computed[1]
        centered == computed[2]
    IN  IF ~Truthy(paths[1]) /\ ~Truthy(paths[2])
        THEN <<generated_cut_paths, generated_score_paths, gcode_generated,
               "No selectable objects found in SVG to center.">>
        ELSE <<centered[1], centered[2], TRUE, "Objects centered.">>

\* the user events handled are bounded; an event whose handler changes
\* nothing is not counted
MaxEvents == 3

\* _initial_setup, queued by __init__
InitialSetup ==
    /\ pc = "dialog"
    /\ idle # <<>> /\ Head(idle).fn = "initial_setup"
    /\ idle' = Tail(idle)
    /\ generated_cut_paths' = AutoCenterPaths[1]
    /\ generated_score_paths' = AutoCenterPaths[2]
    /\ gcode_generated' = AutoCenterPaths[3]
    /\ logged' = AutoCenterPaths[4]
    /\ GenerateGcodeFromCurrentPaths
    /\ UNCHANGED <<pc, selection, gcode_text, viewVars>>
    /\ UNCHANGED <<stitchVars, pathsVars, unitVars>>

\* on_auto_center_clicked
AutoCenterClicked ==
    /\ pc = "dialog"
    /\ auto_center_button
    /\ events < MaxEvents
    /\ events' = events + 1
    /\ generated_cut_paths' = AutoCenterPaths[1]
    /\ generated_score_paths' = AutoCenterPaths[2]
    /\ gcode_generated' = AutoCenterPaths[3]
    /\ logged' = AutoCenterPaths[4]
    /\ UNCHANGED <<pc, selection, gcode_text, threads, idle, progressVars>>
    /\ UNCHANGED <<is_object_dragging, drag_last_mouse, gcode_preview_drag,
                   gcode_preview_last, gcode_preview_offset,
                   gcode_preview_zoom, scrolled>>
    /\ UNCHANGED <<stitchVars, pathsVars, unitVars>>

\* on_generate_clicked
GenerateClicked ==
    /\ pc = "dialog"
    /\ generate_button
    /\ events < MaxEvents
    /\ events' = events + 1
    /\ GenerateGcodeFromCurrentPaths
    /\ UNCHANGED <<pc, selection, logged, generated_cut_paths, generated_score_paths,
                   gcode_generated, gcode_text, idle>>
    /\ UNCHANGED <<is_object_dragging, drag_last_mouse, gcode_preview_drag,
                   gcode_preview_last, gcode_preview_offset,
                   gcode_preview_zoom, scrolled>>
    /\ UNCHANGED <<stitchVars, pathsVars, unitVars>>

\* on_gcode_preview_button_press, middle button (which is not held yet)
PanPress(ev) ==
    /\ pc = "dialog"
    /\ ~gcode_preview_drag
    /\ events < MaxEvents
    /\ events' = events + 1
    /\ gcode_preview_drag' = TRUE
    /\ gcode_preview_last' = ev
    /\ UNCHANGED <<pc, selection, logged, generated_cut_paths, generated_score_paths,
                   gcode_generated, gcode_text, threads, idle, is_object_dragging,
                   drag_last_mouse, gcode_preview_offset,
                   gcode_preview_zoom, scrolled, progressVars>>
    /\ UNCHANGED <<stitchVars, pathsVars, unitVars>>

\* on_gcode_preview_button_press, left button, the click being on the paths
\* (a click elsewhere changes nothing)
DragPress(ev) ==
    /\ pc = "dialog"
    /\ ~is_object_dragging
    /\ events < MaxEvents
    /\ Truthy(generated_cut_paths) \/ Truthy(generated_score_paths)
    /\ ClickOnPaths(ev)
    /\ events' = events + 1
    /\ is_object_dragging' = TRUE
    /\ drag_last_mouse' = ev
    /\ UNCHANGED <<pc, selection, logged, generated_cut_paths, generated_score_paths,
                   gcode_generated, gcode_text, threads, idle, gcode_preview_drag,
                   gcode_preview_last, gcode_preview_offset,
                   gcode_preview_zoom, scrolled, progressVars>>
    /\ UNCHANGED <<stitchVars, pathsVars, unitVars>>

\* on_gcode_preview_button_release, middle button
PanRelease ==
    /\ pc = "dialog"
    /\ gcode_preview_drag
    /\ events < MaxEvents
    /\ events' = events + 1
    /\ gcode_preview_drag' = FALSE
    /\ UNCHANGED <<pc, selection, logged, generated_cut_paths, generated_score_paths,
                   gcode_generated, gcode_text, threads, idle, is_object_dragging,
                   drag_last_mouse, gcode_preview_last, gcode_preview_offset,
                   gcode_preview_zoom, scrolled,
                   progressVars>>
    /\ UNCHANGED <<stitchVars, pathsVars, unitVars>>

\* on_gcode_preview_button_release, left button, at the end of an object drag
\* (without a drag it changes nothing)
DragRelease ==
    /\ pc = "dialog"
    /\ is_object_dragging
    /\ events < MaxEvents
    /\ events' = events + 1
    /\ is_object_dragging' = FALSE
    /\ GenerateGcodeFromCurrentPaths
    /\ UNCHANGED <<pc, selection, logged, generated_cut_paths, generated_score_paths,
                   gcode_generated, gcode_text, idle, drag_last_mouse,
                   gcode_preview_drag, gcode_preview_last, gcode_preview_offset,
                   gcode_preview_zoom, scrolled>>
    /\ UNCHANGED <<stitchVars, pathsVars, unitVars>>

\* on_gcode_preview_motion while the view is panned
PanMotion(ev) ==
    /\ pc = "dialog"
    /\ gcode_preview_drag
    /\ events < MaxEvents
    /\ events' = events + 1
    /\ gcode_preview_offset' =
           <<gcode_preview_offset[1] + (ev[1] - gcode_preview_last[1]),
             gcode_preview_offset[2] + (ev[2] - gcode_preview_last[2])>>
    /\ gcode_preview_last' = ev
    /\ UNCHANGED <<pc, selection, logged, generated_cut_paths, generated_score_paths,
                   gcode_generated, gcode_text, threads, idle, is_object_dragging,
                   drag_last_mouse, gcode_preview_drag, gcode_preview_zoom, scrolled,
                   progressVars>>
    /\ UNCHANGED <<stitchVars, pathsVars, unitVars>>

\* on_gcode_preview_motion while the object is dragged and the view is not
\* panned (with neither, the handler changes nothing)
DragMotion(ev) ==
    /\ pc = "dialog"
    /\ ~gcode_preview_drag
    /\ is_object_dragging
    /\ Truthy(generated_cut_paths) \/ Truthy(generated_score_paths)
    /\ events < MaxEvents
    /\ events' = events + 1
    /\ LET dx_bed_units == BedUnits(ev[1] - drag_last_mouse[1])
           dy_bed_units == BedUnits(ev[2] - drag_last_mouse[2])
       IN  /\ generated_cut_paths' =
                  TranslatePaths(generated_cut_paths, dx_bed_units, dy_bed_units)
           /\ generated_score_paths' =
                  TranslatePaths(generated_score_paths, dx_bed_units, dy_bed_units)
    /\ drag_last_mouse' = ev
    /\ UNCHANGED <<pc, selection, logged, gcode_generated, gcode_text, threads, idle,
                   is_object_dragging, gcode_preview_drag, gcode_preview_last,
                   gcode_preview_offset,
                   gcode_preview_zoom, scrolled, progressVars>>
    /\ UNCHANGED <<stitchVars, pathsVars, unitVars>>

\* slip: only the upper limit of the zoom is applied
ClampedAbove(new_zoom) == MinOf({new_zoom, 10 * ZoomUnit})

\* max(0.1, min(new_zoom, 10.0))
Clamped(new_zoom) == MaxOf({ZoomUnit \div 10, MinOf({new_zoom, 10 * ZoomUnit})})

\* the directions of a scroll event
ScrollDirections == {"UP", "DOWN", "LEFT", "SMOOTH"}

\* on_gcode_preview_scroll on a view <<zoom, pan offset>>: the view it leaves
OnGcodePreviewScroll(direction, ev, view) ==
    IF direction \notin {"UP", "DOWN"} THEN view
    ELSE LET zoom == view[1]
             offset == view[2]
             x_relative == ev[1] - offset_x_base - offset[1]
             y_relative == ev[2] - offset_y_base - offset[2]
             new_zoom == IF direction = "UP" THEN RoundDiv(zoom * 11, 10)
                                             ELSE RoundDiv(zoom * 10, 11)
             limited == Clamped(new_zoom)
             new_x_relative == RoundDiv(x_relative * limited, zoom)
             new_y_relative == RoundDiv(y_relative * limited, zoom)
         IN  <<limited, <<offset[1] + (x_relative - new_x_relative),
                          offset[2] + (y_relative - new_y_relative)>>>>

\* a scroll event on the preview (counted whatever its direction)
Scroll(direction, ev) ==
    /\ pc = "dialog"
    /\ events < MaxEvents
    /\ events' = events + 1
    /\ scrolled' = <<scrolled[1] + 1, direction>>
    /\ LET view == The({OnGcodePreviewScroll(direction, ev, now) :
                            now \in {<<gcode_preview_zoom, gcode_preview_offset>>}})
       IN  /\ gcode_preview_zoom' = view[1]
           /\ gcode_preview_offset' = view[2]
    /\ UNCHANGED <<pc, selection, logged, generated_cut_paths, generated_score_paths,
                   gcode_generated, gcode_text, threads, idle, is_object_dragging,
                   drag_last_mouse, gcode_preview_drag, gcode_preview_last,
                   progressVars>>
    /\ UNCHANGED <<stitchVars, pathsVars, unitVars>>

\* generate_gcode_bg, line 805: nothing to generate from
BgTest(i) ==
    /\ pc = "dialog"
    /\ threads[i].pc = "test"
    /\ IF ~Truthy(generated_cut_paths) /\ ~Truthy(generated_score_paths)
       THEN /\ idle' = Append(idle, IdleCall("stop_progress", <<>>, <<>>, <<>>))
            /\ threads' = [threads EXCEPT ![i] = Thread("done", threads[i].gcode)]
       ELSE /\ threads' = [threads EXCEPT ![i] = Thread("check", <<>>)]
            /\ UNCHANGED idle
    /\ UNCHANGED <<pc, selection, logged, generated_cut_paths, generated_score_paths,
                   gcode_generated, gcode_text, viewVars, progressVars>>
    /\ UNCHANGED <<stitchVars, pathsVars, unitVars>>

\* slip: the abort of lines 831-835 returns without queuing stop_progress
BgCheckNoStop(i) ==
    /\ pc = "dialog"
    /\ threads[i].pc = "check"
    /\ IF OutOfBounds(generated_cut_paths, generated_score_paths)
       THEN threads' = [threads EXCEPT ![i] = Thread("done", threads[i].gcode)]
       ELSE threads' = [threads EXCEPT ![i] =
                           Checked(generated_cut_paths, generated_score_paths)]
    /\ UNCHANGED <<pc, selection, logged, generated_cut_paths, generated_score_paths,
                   gcode_generated, gcode_text, idle, viewVars, progressVars>>
    /\ UNCHANGED <<stitchVars, pathsVars, unitVars>>

\* generate_gcode_bg, lines 811-835: the boundary check
BgCheck(i) ==
    /\ pc = "dialog"
    /\ threads[i].pc = "check"
    /\ IF OutOfBounds(generated_cut_paths, generated_score_paths)
       THEN /\ idle' = Append(idle, IdleCall("stop_progress", <<>>, <<>>, <<>>))
            /\ threads' = [threads EXCEPT ![i] = Thread("done", threads[i].gcode)]
       ELSE /\ threads' = [threads EXCEPT ![i] =
                              Checked(generated_cut_paths, generated_score_paths)]
            /\ UNCHANGED idle
    /\ UNCHANGED <<pc, selection, logged, generated_cut_paths, generated_score_paths,
                   gcode_generated, gcode_text, viewVars, progressVars>>
    /\ UNCHANGED <<stitchVars, pathsVars, unitVars>>

\* generate_gcode_bg, line 838: gcode_logic.generate returns
BgGenerate(i) ==
    /\ pc = "dialog"
    /\ threads[i].pc = "generate"
    /\ threads' = [threads EXCEPT ![i] =
                      Thread("schedule", <<generated_cut_paths, generated_score_paths>>)]
    /\ UNCHANGED <<pc, selection, logged, generated_cut_paths, generated_score_paths,
                   gcode_generated, gcode_text, idle, viewVars, progressVars>>
    /\ UNCHANGED <<stitchVars, pathsVars, unitVars>>

\* generate_gcode_bg, line 838: gcode_logic.generate raises, lines 844-849
BgGenerateRaises(i) ==
    /\ pc = "dialog"
    /\ threads[i].pc = "generate"
    /\ idle' = Append(idle, IdleCall("stop_progress", <<>>, <<>>, <<>>))
    /\ threads' = [threads EXCEPT ![i] = Thread("done", threads[i].gcode)]
    /\ UNCHANGED <<pc, selection, logged, generated_cut_paths, generated_score_paths,
                   gcode_generated, gcode_text, viewVars, progressVars>>
    /\ UNCHANGED <<stitchVars, pathsVars, unitVars>>

\* generate_gcode_bg, lines 840-841, and the end of the thread
BgSchedule(i) ==
    /\ pc = "dialog"
    /\ threads[i].pc = "schedule"
    /\ idle' = idle \o <<IdleCall("set_gcode_text", threads[i].gcode,
                                   generated_cut_paths, generated_score_paths),
                          IdleCall("stop_progress", <<>>, <<>>, <<>>)>>
    /\ threads' = [threads EXCEPT ![i] = Thread("done", threads[i].gcode)]
    /\ UNCHANGED <<pc, selection, logged, generated_cut_paths, generated_score_paths,
                   gcode_generated, gcode_text, viewVars, progressVars>>
    /\ UNCHANGED <<stitchVars, pathsVars, unitVars>>

\* stop_progress, run from the idle queue
StopProgress ==
    /\ pc = "dialog"
    /\ idle # <<>> /\ Head(idle).fn = "stop_progress"
    /\ idle' = Tail(idle)
    /\ progress_animating' = FALSE
    /\ progress_haze' = FALSE
    /\ generate_button' = TRUE
    /\ auto_center_button' = TRUE
    /\ stops' = stops + 1
    /\ UNCHANGED <<pc, selection, logged, generated_cut_paths, generated_score_paths,
                   gcode_generated, gcode_text, threads, viewVars>>
    /\ UNCHANGED <<stitchVars, pathsVars, unitVars>>

\* set_gcode_text, run from the idle queue
SetGcodeText ==
    /\ pc = "dialog"
    /\ idle # <<>> /\ Head(idle).fn = "set_gcode_text"
    /\ idle' = Tail(idle)
    /\ gcode_text' = Head(idle).gcode
    /\ IF Head(idle).cut_paths # None /\ Head(idle).score_paths # None
       THEN /\ generated_cut_paths' = Head(idle).cut_paths
            /\ generated_score_paths' = Head(idle).score_paths
            /\ gcode_generated' = TRUE
       ELSE /\ generated_cut_paths' = None
            /\ generated_score_paths' = None
            /\ gcode_generated' = FALSE
    /\ UNCHANGED <<pc, selection, logged, threads, viewVars, progressVars>>
    /\ UNCHANGED <<stitchVars, pathsVars, unitVars>>

\* no call of _extract_path_data is followed on its own
ExtractIdle ==
    /\ arr = <<>>
    /\ consumed = 0
    /\ extractor = <<>>
    /\ returned = <<>>

\* no call of _flatten_cubic_bezier is followed on its own
FlattenIdle ==
    /\ flatten_args = <<>>
    /\ calls = <<>>
    /\ accepted = <<>>
    /\ flatten_result = <<>>

\* no call of center_paths_on_bed is followed on its own
CenterIdle ==
    /\ center_args = <<>>
    /\ center_result = <<>>

\* no placement is followed on its own
PlaceIdle ==
    /\ place_args = <<>>
    /\ stored_paths = <<>>
    /\ out_of_bounds = <<>>

\* no ConfigManager is followed on its own
ConfigIdle ==
    /\ config_file = <<>>
    /\ config_loaded = <<>>
    /\ config_saved = <<>>

UnitsIdle == ConfigIdle /\ PlaceIdle /\ ExtractIdle /\ FlattenIdle /\ CenterIdle

\* the values the dialog's variables have when no dialog is open
DialogIdle ==
    /\ selection = <<>>
    /\ generated_cut_paths = None
    /\ generated_score_paths = None
    /\ gcode_generated = FALSE
    /\ gcode_text = <<>>
    /\ logged = ""
    /\ threads = <<>>
    /\ idle = <<>>
    /\ is_object_dragging = FALSE
    /\ drag_last_mouse = <<0, 0>>
    /\ gcode_preview_drag = FALSE
    /\ gcode_preview_last = <<0, 0>>
    /\ gcode_preview_offset = <<0, 0>>
    /\ gcode_preview_zoom = ZoomUnit
    /\ scrolled = <<0, "">>
    /\ events = 0
    /\ progress_animating = FALSE
    /\ progress_haze = FALSE
    /\ generate_button = TRUE
    /\ auto_center_button = TRUE
    /\ stops = 0

(***************************************************************************)
(* smart_stitch_subpaths, one loop iteration per step.                     *)
(***************************************************************************)
\* "if not subpaths: return []", else copy, sort, enter the outer loop
StitchBegin ==
    /\ pc = "stitch_call"
    /\ stitched' = <<>>
    /\ stitched_path' = <<>>
    /\ IF subpaths = <<>>
       THEN unused' = <<>> /\ pc' = "stitch_done"
       ELSE unused' = SortByLength(subpaths) /\ pc' = "stitch_outer"
    /\ UNCHANGED subpaths
    /\ UNCHANGED pathsVars
    /\ UNCHANGED <<dialogVars, unitVars>>

\* outer loop body entry: current = unused.pop(0); stitched_path = list(current)
StitchSeed ==
    /\ pc = "stitch_outer"
    /\ unused # <<>>
    /\ stitched_path' = Head(unused)
    /\ unused' = Tail(unused)
    /\ pc' = "stitch_inner"
    /\ UNCHANGED <<subpaths, stitched>>
    /\ UNCHANGED pathsVars
    /\ UNCHANGED <<dialogVars, unitVars>>

\* inner loop iteration that finds a subpath within tolerance and appends it
StitchJoin ==
    /\ pc = "stitch_inner"
    /\ unused # <<>>
    /\ LET best == FindBest(unused, Last(stitched_path))
       IN  /\ WithinTolerance(best)
           /\ stitched_path' =
                  Extended(stitched_path, Oriented(unused[best.idx], best.reverse))
           /\ unused' = RemoveAt(unused, best.idx)
    /\ UNCHANGED <<pc, subpaths, stitched>>
    /\ UNCHANGED pathsVars
    /\ UNCHANGED <<dialogVars, unitVars>>

\* slip: a chain of a single point is not kept
StitchFinishDropsFragment ==
    /\ pc = "stitch_inner"
    /\ unused = <<>> \/ ~WithinTolerance(FindBest(unused, Last(stitched_path)))
    /\ stitched' = IF Len(stitched_path) > 1 THEN Append(stitched, stitched_path)
                   ELSE stitched
    /\ stitched_path' = <<>>
    /\ pc' = "stitch_outer"
    /\ UNCHANGED <<subpaths, unused>>
    /\ UNCHANGED pathsVars
    /\ UNCHANGED <<dialogVars, unitVars>>

\* inner loop exit (pool empty, or break): stitched.append(stitched_path)
StitchFinish ==
    /\ pc = "stitch_inner"
    /\ unused = <<>> \/ ~WithinTolerance(FindBest(unused, Last(stitched_path)))
    /\ stitched' = Append(stitched, stitched_path)
    /\ stitched_path' = <<>>
    /\ pc' = "stitch_outer"
    /\ UNCHANGED <<subpaths, unused>>
    /\ UNCHANGED pathsVars
    /\ UNCHANGED <<dialogVars, unitVars>>

\* outer loop exit: return stitched
StitchReturn ==
    /\ pc = "stitch_outer"
    /\ unused = <<>>
    /\ pc' = "stitch_done"
    /\ UNCHANGED <<subpaths, unused, stitched, stitched_path>>
    /\ UNCHANGED pathsVars
    /\ UNCHANGED <<dialogVars, unitVars>>

(***************************************************************************)
(* Inputs of the stitcher.                                                 *)
(***************************************************************************)
MaxSubpaths == 3
MaxLen == 2

\* end points of the subpaths, (10,0.1), (10,0.4) and (10.2,0) mm: the first
\* is exactly at the tolerance from the second and 0.224 mm from the third,
\* the second is 0.447 mm from the third
StitchPoints == {<<200, 2>>, <<200, 8>>, <<204, 0>>}

\* [(0,0),(10,0)] and [(10.1,0),(20,0)]
GapScenario == << <<<<0, 0>>, <<200, 0>>>>, <<<<202, 0>>, <<400, 0>>>> >>

\* points between the two ends of a subpath of three or more points
InnerPoints == {<<100, 50>>}

SeqsUpTo(S, n) == UNION {[1..k -> S] : k \in 0..n}

RawSubpaths(Ends) ==
    {s \in SeqsUpTo(Ends \cup InnerPoints, MaxLen) \ {<<>>} :
        \A k \in 1..Len(s) : (k = 1 \/ k = Len(s)) <=> s[k] \in Ends}

\* sub[0][0], sub[0][1] ascending, as line 78 leaves the list
FirstPointLess(a, b) ==
    \/ a[1][1] < b[1][1]
    \/ a[1][1] = b[1][1] /\ a[1][2] < b[1][2]

SortedByFirstPoint(list) ==
    \A i \in 1..Len(list) - 1 : ~FirstPointLess(list[i + 1], list[i])

\* provenance: subpath i, position k
Tagged(list) ==
    [i \in 1..Len(list) |->
        [k \in 1..Len(list[i]) |-> <<list[i][k][1], list[i][k][2], 10 * i + k>>]]

\* the argument lists get_paths_by_color can pass: non-empty subpaths,
\* sorted by first point
StitchInputs(Ends) ==
    {Tagged(raw) : raw \in {r \in SeqsUpTo(RawSubpaths(Ends), MaxSubpaths) :
                                SortedByFirstPoint(r)} \cup {GapScenario}}

\* entry of the call, with the argument bound
InitStitch ==
    /\ pc = "stitch_call"
    /\ subpaths \in StitchInputs(StitchPoints)
    /\ unused = <<>>
    /\ stitched = <<>>
    /\ stitched_path = <<>>
    /\ PathsIdle
    /\ DialogIdle
    /\ UnitsIdle

NextStitch ==
    \/ StitchBegin
    \/ StitchSeed
    \/ StitchJoin
    \/ StitchFinish
    \/ StitchReturn

SpecStitch == InitStitch /\ [][NextStitch]_vars

(***************************************************************************)
(* get_paths_by_color, one selected element per step.                      *)
(***************************************************************************)
\* M 0 0 L 8 0 | M 0 0 V 8 | M 8 0 H 16 M 24 0 L 24 12 Z |
\* M 0 0 L 8 0 M 40 0 (a trailing move) | no command at all
\* (document units; 0.1 mm is 4)
ExamplePaths ==
    { <<Cmd("M", <<0, 0>>), Cmd("L", <<8, 0>>)>>,
      <<Cmd("M", <<0, 0>>), Cmd("V", <<8>>)>>,
      <<Cmd("M", <<8, 0>>), Cmd("H", <<16>>),
        Cmd("M", <<24, 0>>), Cmd("L", <<24, 12>>), Cmd("Z", <<>>)>>,
      <<Cmd("M", <<0, 0>>), Cmd("L", <<8, 0>>), Cmd("M", <<40, 0>>)>>,
      <<>> }

\* no stroke property, stroke:none, stroke: (empty), black, red, grey
ExampleStyles ==
    { [has_stroke |-> FALSE, stroke |-> NoColor("")],
      Stroke(NoColor("none")), Stroke(NoColor("")),
      Stroke(Rgb(0, 0, 0)), Stroke(Rgb(255, 0, 0)), Stroke(Rgb(128, 128, 128)) }

\* path elements, and one selected element that is not a path
PathsElements ==
    [is_path : {TRUE}, style : ExampleStyles, d : ExamplePaths]
        \cup {[is_path |-> FALSE, style |-> Stroke(Rgb(0, 0, 0)),
               d |-> <<Cmd("M", <<0, 0>>), Cmd("L", <<8, 0>>)>>]}

\* channel values on both sides of every threshold
Channels == {0, 19, 20, 21, 49, 50, 199, 200, 201, 255}

ColorElements ==
    {[is_path |-> TRUE, style |-> Stroke(Rgb(r, g, b)),
      d |-> <<Cmd("M", <<0, 0>>), Cmd("L", <<8, 0>>)>>] :
        r \in Channels, g \in Channels, b \in Channels}

StitchIdle ==
    /\ subpaths = <<>>
    /\ unused = <<>>
    /\ stitched = <<>>
    /\ stitched_path = <<>>

\* entry of get_paths_by_color
InitPaths ==
    /\ pc = "paths_loop"
    /\ PathsIdle
    /\ StitchIdle
    /\ DialogIdle
    /\ UnitsIdle

\* "for element in self.svg.selection.get()": the next element
PathsElement ==
    /\ pc = "paths_loop"
    /\ seen < MaxElements
    /\ \E el \in PathsElements : ProcessElement(el)

\* the same for a selection of one path of any stroke colour
ClassifyElement ==
    /\ pc = "paths_loop"
    /\ seen < 1
    /\ \E el \in ColorElements : ProcessElement(el)

NextPaths == PathsElement \/ PathsStitch

SpecPaths == InitPaths /\ [][NextPaths]_vars

NextClassify == ClassifyElement \/ PathsStitch

SpecClassify == InitPaths /\ [][NextClassify]_vars

(***************************************************************************)
(* The dialog, opened on a selection.                                      *)
(***************************************************************************)
\* pointer positions in the preview, in pixels: the middle of the bed, and
\* three pixels (1 mm) below it
MousePoints == {<<500, 350>>, <<500, 353>>}

\* after CNCDialog.__init__, the view being as given
InitDialogAt(view) ==
    /\ pc = "dialog"
    /\ PathsIdle
    /\ StitchIdle
    /\ selection \in DialogSelections
    /\ generated_cut_paths = None
    /\ generated_score_paths = None
    /\ gcode_generated = FALSE
    /\ gcode_text = <<>>
    /\ logged = ""
    /\ threads = <<>>
    /\ idle = <<IdleCall("initial_setup", <<>>, <<>>, <<>>)>>
    /\ is_object_dragging = FALSE
    /\ drag_last_mouse = <<0, 0>>
    /\ gcode_preview_drag = FALSE
    /\ gcode_preview_last = <<0, 0>>
    /\ gcode_preview_offset = view[2]
    /\ gcode_preview_zoom = view[1]
    /\ scrolled = <<0, "">>
    /\ events = 0
    /\ progress_animating = FALSE
    /\ progress_haze = FALSE
    /\ generate_button = TRUE
    /\ auto_center_button = TRUE
    /\ stops = 0
    /\ UnitsIdle

\* after CNCDialog.__init__: zoom 1.0 and no pan
InitDialog == InitDialogAt(<<ZoomUnit, <<0, 0>>>>)

\* the idle callbacks, the user's clicks and pointer events on the preview
\* (scroll events, which change only the zoom and the pan offset, are not
\* drawn), and the statements of the running threads
NextDialog ==
    \/ InitialSetup
    \/ AutoCenterClicked
    \/ GenerateClicked
    \/ \E ev \in MousePoints : PanPress(ev)
    \/ \E ev \in MousePoints : DragPress(ev)
    \/ PanRelease
    \/ DragRelease
    \/ \E ev \in MousePoints : PanMotion(ev)
    \/ \E ev \in MousePoints : DragMotion(ev)
    \/ \E i \in DOMAIN threads : BgTest(i)
    \/ \E i \in DOMAIN threads : BgCheck(i)
    \/ \E i \in DOMAIN threads : BgGenerate(i)
    \/ \E i \in DOMAIN threads : BgGenerateRaises(i)
    \/ \E i \in DOMAIN threads : BgSchedule(i)
    \/ StopProgress
    \/ SetGcodeText

SpecDialog == InitDialog /\ [][NextDialog]_vars

\* what runs without the user: the threads, which the interpreter schedules
\* as long as they can run, and the idle callbacks, which the GLib main loop
\* calls once no event is pending
Background ==
    \/ InitialSetup
    \/ \E i \in DOMAIN threads : BgTest(i)
    \/ \E i \in DOMAIN threads : BgCheck(i)
    \/ \E i \in DOMAIN threads : BgGenerate(i) \/ BgGenerateRaises(i)
    \/ \E i \in DOMAIN threads : BgSchedule(i)
    \/ StopProgress
    \/ SetGcodeText

\* the dialog with its threads and its main loop running
SpecDialogFair == SpecDialog /\ WF_vars(Background)

(***************************************************************************)
(* The dialog with the scroll wheel.                                       *)
(***************************************************************************)
\* wheel notches turned before the events that are followed
MaxNotches == 24

\* the view after n scroll events of one direction with the pointer on the
\* bed's origin
RECURSIVE Wheel(_, _, _)
Wheel(direction, n, view) ==
    IF n = 0 THEN view
    ELSE The({Wheel(direction, n - 1, next) :
                 next \in {OnGcodePreviewScroll(direction, <<offset_x_base, offset_y_base>>,
                                                view)}})

\* the dialog opened on the black line, as constructed or with the wheel
\* already turned MaxNotches notches up or down
InitView ==
    /\ \E direction \in {"UP", "DOWN"}, n \in {0, MaxNotches} :
           InitDialogAt(Wheel(direction, n, <<ZoomUnit, <<0, 0>>>>))
    /\ selection = <<Document[1]>>

NextView ==
    \/ NextDialog
    \/ \E direction \in ScrollDirections, ev \in MousePoints : Scroll(direction, ev)

SpecView == InitView /\ [][NextView]_vars

(***************************************************************************)
(* One call of _extract_path_data, an iteration of its loop per step.      *)
(* The points an iteration creates are tagged with the position of its     *)
(* command in arr.                                                         *)
(***************************************************************************)
ExtractIteration ==
    /\ pc = "extract"
    /\ consumed < Len(arr)
    /\ extractor' = ExtractStep(extractor, arr[consumed + 1], consumed + 1)
    /\ consumed' = consumed + 1
    /\ UNCHANGED <<pc, arr, returned>>
    /\ UNCHANGED <<stitchVars, pathsVars, dialogVars, flattenVars, centerVars, placeVars, configVars>>

ExtractReturn ==
    /\ pc = "extract"
    /\ consumed = Len(arr)
    /\ returned' = ExtractResult(extractor)
    /\ pc' = "extract_done"
    /\ UNCHANGED <<arr, consumed, extractor>>
    /\ UNCHANGED <<stitchVars, pathsVars, dialogVars, flattenVars, centerVars, placeVars, configVars>>

(***************************************************************************)
(* The command arrays drawn.  The curves are chosen around two that the    *)
(* flattener splits once, with whole-numbered midpoints:                   *)
(*   M 0 0 C 0 8 32 8 32 0   (then S 64 -8 64 0 mirrors it)                *)
(*   M 0 0 Q 24 12 48 0      (then T 96 0 mirrors it)                      *)
(* and C 0 0 0 0 20 0, whose final control point is the origin (then        *)
(* S 60 0 80 0 continues it along the x axis).                             *)
(* An array is drawn only if every quotient the program forms on it is a   *)
(* whole number, so that \div is the program's division.                   *)
(***************************************************************************)
MaxCommands == 3

ExtractCommands ==
    { Cmd("M", <<0, 0>>), Cmd("M", <<80, 0>>),
      Cmd("L", <<20, 0>>), Cmd("H", <<60>>), Cmd("V", <<20>>),
      Cmd("C", <<0, 8, 32, 8, 32, 0>>), Cmd("C", <<0, 0, 0, 0, 20, 0>>),
      Cmd("S", <<64, -8, 64, 0>>), Cmd("S", <<60, 0, 80, 0>>),
      Cmd("Q", <<24, 12, 48, 0>>),
      Cmd("T", <<96, 0>>),
      Cmd("A", <<10, 10, 0, 0, 1, 50, 0>>), Cmd("A", <<30, 6, 45, 1, 0, 50, 0>>),
      Cmd("A", <<10, 10, 0, 0, 1, 52, 20>>),
      Cmd("Z", <<>>),
      Cmd("R", <<20, 20>>) }

CommandArrays(most) == UNION { [1..n -> ExtractCommands] : n \in 0..most }

Divides(k, n) == n % k = 0

\* the halves the flattener forms on this curve are whole
RECURSIVE WholeCubic(_, _, _, _, _)
WholeCubic(p0, p1, p2, p3, flatness) ==
    \/ FlatEnough(p0, p1, p2, p3, flatness)
    \/ /\ \A k \in 1..2 :
            /\ Divides(2, p0[k] + p1[k])
            /\ Divides(2, p1[k] + p2[k])
            /\ Divides(2, p2[k] + p3[k])
            /\ Divides(4, p0[k] + 2 * p1[k] + p2[k])
            /\ Divides(4, p1[k] + 2 * p2[k] + p3[k])
            /\ Divides(8, p0[k] + 3 * p1[k] + 3 * p2[k] + p3[k])
       /\ \A h \in {Halves(p0, p1, p2, p3)} :
              /\ WholeCubic(h[1][1], h[1][2], h[1][3], h[1][4], flatness)
              /\ WholeCubic(h[2][1], h[2][2], h[2][3], h[2][4], flatness)

\* the quotients the iteration for command c forms in state st are whole
WholeStep(st, c) ==
    \A call \in {ExtractStep(st, c, 0).call} :
        /\ c.cmd \in {"M", "L", "H", "V", "C", "S", "Q", "T"} =>
               \A k \in DOMAIN c.params : Divides(scale, c.params[k])
        /\ c.cmd = "A" =>
               /\ Divides(scale, c.params[6]) /\ Divides(scale, c.params[7])
               /\ Divides(5, c.params[6] \div scale - st.last[1])
               /\ Divides(5, c.params[7] \div scale - st.last[2])
        /\ c.cmd \in {"C", "S"} =>
               WholeCubic(call[1], call[2], call[3], call[4], flatness_default)
        /\ c.cmd \in {"Q", "T"} =>
               /\ \A k \in 1..2 : /\ Divides(3, 2 * (call[2][k] - call[1][k]))
                                  /\ Divides(3, 2 * (call[2][k] - call[3][k]))
               /\ WholeCubic(call[1], TwoThirds(call[1], call[2]),
                             TwoThirds(call[3], call[2]), call[3], flatness_default)

RECURSIVE WholeFrom(_, _, _)
WholeFrom(st, a, i) ==
    \/ i > Len(a)
    \/ /\ WholeStep(st, a[i])
       /\ \A next \in {ExtractStep(st, a[i], i)} : WholeFrom(next, a, i + 1)

ExtractInputs(most) == { a \in CommandArrays(most) : WholeFrom(ExtractStart, a, 1) }

InitExtract ==
    /\ pc = "extract"
    /\ arr \in ExtractInputs(MaxCommands)
    /\ consumed = 0
    /\ extractor = ExtractStart
    /\ returned = None
    /\ FlattenIdle
    /\ CenterIdle
    /\ PlaceIdle
    /\ ConfigIdle
    /\ StitchIdle
    /\ PathsIdle
    /\ DialogIdle

NextExtract == ExtractIteration \/ ExtractReturn

SpecExtract == InitExtract /\ [][NextExtract]_vars

(***************************************************************************)
(* One call of _flatten_cubic_bezier.  calls is the interpreter's stack of *)
(* pending calls of recursive, the next one to run first, each with its    *)
(* arguments and its depth; accepted lists the arguments of the calls that *)
(* returned [p0, p3].  A call deeper than the recursion limit raises       *)
(* RecursionError, which nothing in the program catches.                   *)
(***************************************************************************)
\* sys.getrecursionlimit(), scaled down to the depths the inputs reach
RecursionLimit == 4

Frame(seg, depth) == [seg |-> seg, depth |-> depth]

\* line 102: the call returns [p0, p3]
FlattenAccept ==
    /\ pc = "flatten"
    /\ calls # <<>>
    /\ Head(calls).depth <= RecursionLimit
    /\ LET c == Head(calls).seg
       IN  /\ FlatEnough(c[1], c[2], c[3], c[4], flatten_args.flatness)
           /\ accepted' = Append(accepted, c)
    /\ calls' = Tail(calls)
    /\ UNCHANGED <<pc, flatten_args, flatten_result>>
    /\ UNCHANGED <<stitchVars, pathsVars, dialogVars, extractVars, centerVars, placeVars, configVars>>

\* lines 104-112: the call subdivides and calls itself on the two halves
FlattenSubdivide ==
    /\ pc = "flatten"
    /\ calls # <<>>
    /\ Head(calls).depth <= RecursionLimit
    /\ LET c == Head(calls).seg
           h == Halves(c[1], c[2], c[3], c[4])
           d == Head(calls).depth
       IN  /\ ~FlatEnough(c[1], c[2], c[3], c[4], flatten_args.flatness)
           /\ calls' = <<Frame(h[1], d + 1), Frame(h[2], d + 1)>> \o Tail(calls)
    /\ UNCHANGED <<pc, flatten_args, accepted, flatten_result>>
    /\ UNCHANGED <<stitchVars, pathsVars, dialogVars, extractVars, centerVars, placeVars, configVars>>

\* the interpreter refuses the call: RecursionError leaves _flatten_cubic_bezier
FlattenRaise ==
    /\ pc = "flatten"
    /\ calls # <<>>
    /\ Head(calls).depth > RecursionLimit
    /\ pc' = "flatten_raised"
    /\ calls' = <<>>
    /\ UNCHANGED <<flatten_args, accepted, flatten_result>>
    /\ UNCHANGED <<stitchVars, pathsVars, dialogVars, extractVars, centerVars, placeVars, configVars>>

\* line 115: every call has returned
FlattenReturn ==
    /\ pc = "flatten"
    /\ calls = <<>>
    /\ flatten_result' = FlattenCubicBezier(flatten_args.p0, flatten_args.p1,
                                            flatten_args.p2, flatten_args.p3,
                                            flatten_args.flatness)
    /\ pc' = "flatten_done"
    /\ UNCHANGED <<flatten_args, calls, accepted>>
    /\ UNCHANGED <<stitchVars, pathsVars, dialogVars, extractVars, centerVars, placeVars, configVars>>

(***************************************************************************)
(* The curves drawn: every choice of four control points on a 3 x 3 grid   *)
(* of spacing 64, with a flatness of 32 or 128 (no curve is split more     *)
(* than twice, and 64 = 8 * 8 keeps the midpoints of two splits whole);    *)
(* a curve along the x axis that starts backwards (flatness 8); and a      *)
(* point curve with a flatness whose square underflows.                    *)
(***************************************************************************)
GridPoints == {<<x, y>> : x \in {0, 64, 128}, y \in {0, 64, 128}}

FlatnessValues == {<<32, 0>>, <<128, 0>>}

\* a positive flatness with flatness**2 = 0.0
flatness_tiny == <<1, -700>>

FlattenArgs(p0, p1, p2, p3, flatness) ==
    [p0 |-> p0, p1 |-> p1, p2 |-> p2, p3 |-> p3, flatness |-> flatness]

FlattenInputs(flatnesses) ==
    {FlattenArgs(p0, p1, p2, p3, f) :
        p0 \in GridPoints, p1 \in GridPoints, p2 \in GridPoints, p3 \in GridPoints,
        f \in flatnesses}
    \cup {FlattenArgs(<<0, 0>>, <<-8, 0>>, <<-8, 0>>, <<48, 0>>, <<8, 0>>),
          FlattenArgs(<<0, 0>>, <<0, 0>>, <<0, 0>>, <<0, 0>>, flatness_tiny)}

InitFlatten ==
    /\ pc = "flatten"
    /\ flatten_args \in FlattenInputs(FlatnessValues)
    /\ calls = <<Frame(<<flatten_args.p0, flatten_args.p1,
                         flatten_args.p2, flatten_args.p3>>, 1)>>
    /\ accepted = <<>>
    /\ flatten_result = None
    /\ ExtractIdle
    /\ CenterIdle
    /\ PlaceIdle
    /\ ConfigIdle
    /\ StitchIdle
    /\ PathsIdle
    /\ DialogIdle

NextFlatten == FlattenAccept \/ FlattenSubdivide \/ FlattenRaise \/ FlattenReturn

SpecFlatten == InitFlatten /\ [][NextFlatten]_vars

(***************************************************************************)
(* One call of center_paths_on_bed.  A path is a list of subpaths; the     *)
(* lists drawn hold a line, a path of two subpaths that reaches left of    *)
(* and below the origin, a far single point and a path without subpaths.   *)
(* Coordinates and bed sizes are even, so that the halves are whole.       *)
(***************************************************************************)
CenterCall ==
    /\ pc = "center"
    /\ center_result' = CenterPathsOnBed(center_args.cut_paths, center_args.score_paths,
                                         center_args.bed_w, center_args.bed_h)
    /\ pc' = "center_done"
    /\ UNCHANGED center_args
    /\ UNCHANGED <<stitchVars, pathsVars, dialogVars, extractVars, flattenVars, placeVars, configVars>>

MaxPaths == 2

CenterPaths ==
    { <<<<<<0, 0, 1>>, <<80, 0, 1>>>>>>,
      <<<<<<10, 20, 2>>, <<10, 60, 2>>>>, <<<<-40, 6, 2>>, <<0, 0, 2>>>>>>,
      <<<<<<7000, 5000, 3>>>>>>,
      <<>> }

CenterLists(most) == UNION { [1..n -> CenterPaths] : n \in 0..most }

\* (bed_w, bed_h): the default bed, a bed smaller than the geometry, no bed
Beds == {<<6000, 4000>>, <<60, 40>>, <<0, 0>>}

InitCenter ==
    /\ pc = "center"
    /\ \E cut \in CenterLists(MaxPaths), score \in CenterLists(MaxPaths), bed \in Beds :
           center_args = [cut_paths |-> cut, score_paths |-> score,
                          bed_w |-> bed[1], bed_h |-> bed[2]]
    /\ center_result = None
    /\ ExtractIdle
    /\ FlattenIdle
    /\ PlaceIdle
    /\ ConfigIdle
    /\ StitchIdle
    /\ PathsIdle
    /\ DialogIdle

NextCenter == CenterCall

SpecCenter == InitCenter /\ [][NextCenter]_vars

(***************************************************************************)
(* Placement: the collected paths are stored, centred by                   *)
(* _auto_center_paths or as they are (as a drag has left them), and        *)
(* generate_gcode_bg makes its boundary check on what is stored.  The bed  *)
(* and the margin are the configured ones, drawn with the paths.           *)
(***************************************************************************)
\* _auto_center_paths, lines 773-783
PlaceCenter ==
    /\ pc = "place"
    /\ stored_paths' = CenterPathsOnBed(place_args.cut_paths, place_args.score_paths,
                                        place_args.bed_w, place_args.bed_h)
    /\ pc' = "centered"
    /\ UNCHANGED <<place_args, out_of_bounds>>
    /\ UNCHANGED <<stitchVars, pathsVars, dialogVars, extractVars, flattenVars, centerVars, configVars>>

\* generate_gcode_bg, lines 805-829: the boundary check, which is reached
\* when one of the stored lists is not empty
BoundsCheck ==
    /\ pc \in {"place", "centered"}
    /\ Truthy(stored_paths[1]) \/ Truthy(stored_paths[2])
    /\ out_of_bounds' = OutOfBoundsOn(stored_paths[1], stored_paths[2],
                                      place_args.bed_w, place_args.bed_h,
                                      place_args.margin)
    /\ pc' = IF pc = "place" THEN "checked" ELSE "centered_checked"
    /\ UNCHANGED <<place_args, stored_paths>>
    /\ UNCHANGED <<stitchVars, pathsVars, dialogVars, extractVars, flattenVars, centerVars, configVars>>

\* a coordinate so far left that the offset which centres it must be rounded
FarLeft == 2 - Pow2(mantissa + 1)

\* the paths drawn: the points (2, 100) and (10, 100) mm; a line between
\* opposite corners of the default bed's safe area; a line 0.1 mm wider than
\* that area; a path of two subpaths; a line 1 mm long; a path without
\* subpaths; and a line as wide and high as the default safe area, far left
PlacePaths ==
    { <<<<<<40, 2000, 1>>>>>>,
      <<<<<<200, 2000, 2>>>>>>,
      <<<<<<100, 100, 3>>, <<5900, 3900, 3>>>>>>,
      <<<<<<0, 0, 4>>, <<5802, 0, 4>>>>>>,
      <<<<<<10, 20, 5>>, <<10, 60, 5>>>>, <<<<-40, 6, 5>>, <<0, 0, 5>>>>>>,
      <<<<<<0, 0, 6>>, <<20, 0, 6>>>>>>,
      <<>>,
      <<<<<<FarLeft, 0, 8>>, <<FarLeft + 5800, 3800, 8>>>>>> }

PlaceLists(most) == UNION { [1..n -> PlacePaths] : n \in 0..most }

\* the score paths drawn: none, and a line inside the default safe area
PlaceScoreLists ==
    { <<>>, <<<<<<<<2000, 1000, 9>>, <<2000, 3000, 9>>>>>>>> }

\* (bed_w, bed_h, margin): the defaults; the default bed without margin; a
\* small bed whose margins leave no height; margins wider than the bed
Envelopes == {<<6000, 4000, 100>>, <<6000, 4000, 0>>, <<60, 40, 20>>, <<60, 40, 40>>}

InitPlace ==
    /\ pc = "place"
    /\ \E cut \in PlaceLists(MaxPaths), score \in PlaceScoreLists, env \in Envelopes :
           /\ place_args = [cut_paths |-> cut, score_paths |-> score,
                            bed_w |-> env[1], bed_h |-> env[2], margin |-> env[3]]
           /\ stored_paths = <<cut, score>>
    /\ out_of_bounds = None
    /\ ExtractIdle
    /\ FlattenIdle
    /\ CenterIdle
    /\ ConfigIdle
    /\ StitchIdle
    /\ PathsIdle
    /\ DialogIdle

NextPlace == PlaceCenter \/ BoundsCheck

SpecPlace == InitPlace /\ [][NextPlace]_vars

(***************************************************************************)
(* ConfigManager and its file.  A Python value is a string, an integer or  *)
(* a dictionary with string keys; the file is missing, holds text that is  *)
(* not JSON, or holds the JSON text of a value.  get_default_config is     *)
(* followed on three of its keys.  Writing the file succeeds.              *)
(***************************************************************************)
PyStr(s) == [py |-> "str", v |-> s]

PyInt(n) == [py |-> "int", v |-> n]

PyDict(items) == [py |-> "dict", items |-> items]

\* key in data
Has(data, key) == key \in DOMAIN data.items

\* data[key] = value
Put(data, key, value) ==
    PyDict([k \in DOMAIN data.items \cup {key} |->
               IF k = key THEN value ELSE data.items[k]])

\* json.dump: the JSON text, as the tree of its values
RECURSIVE JsonDump(_)
JsonDump(value) ==
    IF value.py = "str" THEN [json |-> "string", chars |-> value.v]
    ELSE IF value.py = "int" THEN [json |-> "number", digits |-> value.v]
    ELSE [json |-> "object",
          members |-> [k \in DOMAIN value.items |-> JsonDump(value.items[k])]]

\* json.load of a text json.dump can have written
RECURSIVE JsonLoad(_)
JsonLoad(text) ==
    IF text.json = "string" THEN PyStr(text.chars)
    ELSE IF text.json = "number" THEN PyInt(text.digits)
    ELSE PyDict([k \in DOMAIN text.members |-> JsonLoad(text.members[k])])

Missing == [state |-> "missing"]

Unreadable == [state |-> "unreadable"]

\* the file after json.dump(data, f)
Written(data) == [state |-> "json", text |-> JsonDump(data)]

\* get_default_config
DefaultConfig ==
    PyDict([bed_width |-> PyStr("300"), safety_margin |-> PyStr("5"), units |-> PyInt(0)])

\* {'last': last, 'default': default}
Full(last, default) == PyDict([k \in {"last", "default"} |->
                                  IF k = "last" THEN last ELSE default])

\* slip: every default is stored, also over a key the configuration has
FilledOverwriting(config) ==
    PyDict([k \in DOMAIN config.items \cup DOMAIN DefaultConfig.items |->
               IF k \in DOMAIN DefaultConfig.items THEN DefaultConfig.items[k]
               ELSE config.items[k]])

\* load_config, lines 28-30 and 35-37: the defaults for the keys not present
Filled(config) ==
    PyDict([k \in DOMAIN config.items \cup DOMAIN DefaultConfig.items |->
               IF k \in DOMAIN config.items THEN config.items[k]
               ELSE DefaultConfig.items[k]])

\* load_full_config
LoadFullConfig(file) ==
    IF file.state = "missing" THEN Full(DefaultConfig, DefaultConfig)
    ELSE IF file.state = "unreadable" THEN Full(DefaultConfig, DefaultConfig)
    ELSE LET data == JsonLoad(file.text)
         IN  IF ~Has(data, "last") \/ ~Has(data, "default")
             THEN Full(data, DefaultConfig)
             ELSE data

\* load_config: what it returns and what the file holds afterwards
LoadConfigOn(file) ==
    IF file.state = "missing" THEN <<DefaultConfig, file>>
    ELSE IF file.state = "unreadable" THEN <<DefaultConfig, file>>
    ELSE LET data == JsonLoad(file.text)
         IN  IF data.py = "dict" /\ Has(data, "last") /\ Has(data, "default")
             THEN <<Filled(data.items["last"]), file>>
             ELSE <<Filled(data), Written(Full(Filled(data), DefaultConfig))>>

\* load_config
LoadConfig ==
    /\ pc \in {"config", "config_saved"}
    /\ config_loaded' = LoadConfigOn(config_file)[1]
    /\ config_file' = LoadConfigOn(config_file)[2]
    /\ pc' = IF pc = "config" THEN "config" ELSE "config_saved_loaded"
    /\ UNCHANGED config_saved
    /\ UNCHANGED <<stitchVars, pathsVars, dialogVars, extractVars, flattenVars, centerVars,
                   placeVars>>

\* save_config
SaveConfig(config_data) ==
    /\ pc = "config"
    /\ config_file' = Written(Put(LoadFullConfig(config_file), "last", config_data))
    /\ config_saved' = config_data
    /\ pc' = "config_saved"
    /\ UNCHANGED config_loaded
    /\ UNCHANGED <<stitchVars, pathsVars, dialogVars, extractVars, flattenVars, centerVars,
                   placeVars>>

\* save_default
SaveDefault(config_data) ==
    /\ pc = "config"
    /\ config_file' = Written(Put(LoadFullConfig(config_file), "default", config_data))
    /\ UNCHANGED <<pc, config_loaded, config_saved>>
    /\ UNCHANGED <<stitchVars, pathsVars, dialogVars, extractVars, flattenVars, centerVars,
                   placeVars>>

\* save_last_export_info
SaveLastExportInfo(dir_path, filename) ==
    /\ pc = "config"
    /\ config_file' =
           Written(Put(LoadFullConfig(config_file), "last_export",
                       PyDict([dir |-> PyStr(dir_path), filename |-> PyStr(filename)])))
    /\ UNCHANGED <<pc, config_loaded, config_saved>>
    /\ UNCHANGED <<stitchVars, pathsVars, dialogVars, extractVars, flattenVars, centerVars,
                   placeVars>>

\* the configurations drawn: what get_config_from_ui gives (its keys cover
\* no 'units' and hold 'z_plunge_speed', which has no default), the defaults
\* with a wider bed, and a configuration of one key
ConfigInputs ==
    { PyDict([bed_width |-> PyStr("250"), safety_margin |-> PyStr("5"),
              z_plunge_speed |-> PyStr("500")]),
      PyDict([bed_width |-> PyStr("400"), safety_margin |-> PyStr("5"), units |-> PyInt(1)]),
      PyDict([safety_margin |-> PyStr("0")]) }

\* the files drawn: none, one that is not JSON, an old flat one, and one of
\* the new structure with a last export (more of these come from the calls
\* followed)
FileInputs ==
    { Missing, Unreadable,
      Written(PyDict([bed_width |-> PyStr("200"), units |-> PyInt(1)])),
      Written(Put(Full(PyDict([bed_width |-> PyStr("200")]),
                       PyDict([bed_width |-> PyStr("350"), units |-> PyInt(1)])),
                  "last_export",
                  PyDict([dir |-> PyStr("/tmp"), filename |-> PyStr("a.gcode")]))) }

InitConfig ==
    /\ pc = "config"
    /\ config_file \in FileInputs
    /\ config_loaded = None
    /\ config_saved = None
    /\ PlaceIdle
    /\ ExtractIdle
    /\ FlattenIdle
    /\ CenterIdle
    /\ StitchIdle
    /\ PathsIdle
    /\ DialogIdle

NextConfig ==
    \/ LoadConfig
    \/ \E config_data \in ConfigInputs : SaveConfig(config_data)
    \/ \E config_data \in ConfigInputs : SaveDefault(config_data)
    \/ SaveLastExportInfo("/home/user", "output.gcode")

SpecConfig == InitConfig /\ [][NextConfig]_vars

(***************************************************************************)
(* Properties of smart_stitch_subpaths (checked under SpecStitch).         *)
(***************************************************************************)
\* provenance of a point: index of its subpath in the argument list, and its
\* position in that subpath
SubId(p) == p[3] \div 10
Pos(p) == p[3] % 10

\* squared Euclidean distance of two points
GapSq(p, q) == (q[1] - p[1]) ^ 2 + (q[2] - p[2]) ^ 2

\* squared distances from p to every start and end point of the pool
EndpointDistances(pool, p) ==
    {GapSq(pool[i][1], p) : i \in 1..Len(pool)}
        \cup {GapSq(pool[i][Len(pool[i])], p) : i \in 1..Len(pool)}

NearestSq(pool, p) ==
    CHOOSE d \in EndpointDistances(pool, p) :
        \A e \in EndpointDistances(pool, p) : d <= e

Without(s, i) == [j \in 1..Len(s) - 1 |-> IF j < i THEN s[j] ELSE s[j + 1]]

Backwards(s) == [k \in 1..Len(s) |-> s[Len(s) - k + 1]]

XY(p) == <<p[1], p[2]>>

Untagged(list) == [i \in 1..Len(list) |-> [k \in 1..Len(list[i]) |-> XY(list[i][k])]]

\* C4: in the inner loop, when the nearest endpoint of the pool is exactly at
\* the tolerance from the chain's last point nothing is joined and the chain
\* ends; when it is strictly nearer than the tolerance a subpath is joined.
C4_StrictJoinTest ==
    [][(pc = "stitch_inner" /\ unused # <<>>) =>
          LET d == NearestSq(unused, Last(stitched_path))
          IN  /\ d = tolerance * tolerance =>
                    /\ unused' = unused
                    /\ stitched' = Append(stitched, stitched_path)
              /\ d < tolerance * tolerance =>
                    /\ Len(unused') = Len(unused) - 1
                    /\ stitched' = stitched
                    /\ pc' = "stitch_inner"
                    /\ SubSeq(stitched_path', 1, Len(stitched_path)) = stitched_path]_vars

\* a chain has just ended although a subpath of the pool has an endpoint
\* exactly at the tolerance from its last point
C4_Witness ==
    /\ pc = "stitch_outer"
    /\ stitched # <<>>
    /\ unused # <<>>
    /\ NearestSq(unused, Last(Last(stitched))) = tolerance * tolerance

\* C5: in every toolpath (finished or under construction), wherever a point
\* of one input subpath is followed by a point of another, the first point
\* of the later subpath as it was oriented is nearer than the tolerance to
\* the last point of the earlier one; and every point of a toolpath is a
\* point of an input subpath.
C5_JunctionOK(p, q) ==
    LET s == subpaths[SubId(q)]
        n == Len(s)
        k == Pos(q)
    IN  \/ k \in {1, n} /\ GapSq(p, q) < tolerance * tolerance
        \/ n >= 2 /\ k = 2 /\ GapSq(p, s[1]) < tolerance * tolerance
        \/ n >= 2 /\ k = n - 1 /\ GapSq(p, s[n]) < tolerance * tolerance

C5_Toolpaths == IF stitched_path = <<>> THEN stitched ELSE Append(stitched, stitched_path)

C5_JoinsWithinTolerance ==
    \A t \in 1..Len(C5_Toolpaths) :
        LET path == C5_Toolpaths[t]
        IN  /\ \A j \in 1..Len(path) :
                  \E i \in 1..Len(subpaths) : \E k \in 1..Len(subpaths[i]) :
                      path[j] = subpaths[i][k]
            /\ \A j \in 1..Len(path) - 1 :
                  SubId(path[j]) # SubId(path[j + 1]) =>
                      C5_JunctionOK(path[j], path[j + 1])

\* a finished toolpath that joins two subpaths across a gap that is neither
\* zero nor in line with the axes
C5_Witness ==
    /\ pc = "stitch_done"
    /\ \E t \in 1..Len(stitched) : \E j \in 1..Len(stitched[t]) - 1 :
          /\ SubId(stitched[t][j]) # SubId(stitched[t][j + 1])
          /\ stitched[t][j][1] # stitched[t][j + 1][1]
          /\ stitched[t][j][2] # stitched[t][j + 1][2]

\* C6: at return every input subpath is used exactly once: its points occur
\* in one toolpath only, as one contiguous run that is the subpath forwards
\* or backwards, whole or without its leading point; and the argument list
\* is as the caller passed it.
C6_Forms(s) == {s, Backwards(s), Tail(s), Tail(Backwards(s))}

C6_Count(i) ==
    Cardinality({tj \in (1..Len(stitched)) \X (1..(MaxSubpaths * MaxLen)) :
                    /\ tj[2] <= Len(stitched[tj[1]])
                    /\ SubId(stitched[tj[1]][tj[2]]) = i})

C6_RunOf(i) ==
    \E r \in C6_Forms(subpaths[i]) :
        /\ C6_Count(i) = Len(r)
        /\ \/ r = <<>>
           \/ \E t \in 1..Len(stitched) : \E off \in 1..Len(stitched[t]) :
                 /\ off + Len(r) - 1 <= Len(stitched[t])
                 /\ SubSeq(stitched[t], off, off + Len(r) - 1) = r

C6_EachSubpathOnce ==
    /\ subpaths = Tagged(Untagged(subpaths))
    /\ SortedByFirstPoint(subpaths)
    /\ pc = "stitch_done" => \A i \in 1..Len(subpaths) : C6_RunOf(i)

\* a result in which one subpath was appended backwards and another lost its
\* leading point at the join
C6_Witness ==
    /\ pc = "stitch_done"
    /\ \E t \in 1..Len(stitched) : \E j \in 1..Len(stitched[t]) - 1 :
          /\ SubId(stitched[t][j]) = SubId(stitched[t][j + 1])
          /\ Pos(stitched[t][j]) > Pos(stitched[t][j + 1])
    /\ \E i \in 1..Len(subpaths) :
          Len(subpaths[i]) >= 2 /\ C6_Count(i) = Len(subpaths[i]) - 1

\* C7: a chain is seeded with a subpath of the pool that has the most
\* points; a joined subpath is one whose nearer end has the least distance
\* to the chain's last point among all ends of the pool, and it is appended
\* backwards exactly when its end is strictly nearer than its start.
C7_Seed ==
    \E i \in 1..Len(unused) :
        /\ \A j \in 1..Len(unused) : Len(unused[j]) <= Len(unused[i])
        /\ XY(stitched_path'[1]) = XY(unused[i][1])
        /\ stitched_path' = unused[i]
        /\ unused' = Without(unused, i)

C7_Join ==
    \E i \in 1..Len(unused) :
        LET sub     == unused[i]
            last_pt == Last(stitched_path)
            d_start == GapSq(sub[1], last_pt)
            d_end   == GapSq(sub[Len(sub)], last_pt)
            nearer  == IF d_end < d_start THEN d_end ELSE d_start
            placed  == IF d_end < d_start THEN Backwards(sub) ELSE sub
        IN  /\ nearer = NearestSq(unused, last_pt)
            /\ unused' = Without(unused, i)
            /\ stitched_path' \in {stitched_path \o placed,
                                   stitched_path \o Tail(placed)}

C7_GreedyChoice ==
    [][/\ (pc = "stitch_outer" /\ pc' = "stitch_inner") => C7_Seed
       /\ (pc = "stitch_inner" /\ unused' # unused) => C7_Join]_vars

\* a chain whose seed is longer than a subpath listed before it, and to
\* which a subpath that is not the first of the pool was joined backwards
C7_Witness ==
    /\ pc = "stitch_inner"
    /\ Len(stitched_path) >= 4
    /\ SubId(stitched_path[1]) > 1
    /\ Len(subpaths[SubId(stitched_path[1])]) > Len(subpaths[1])
    /\ SubId(Last(stitched_path)) # SubId(stitched_path[1])
    /\ Pos(Last(stitched_path)) = 1
    /\ \E j \in 1..Len(unused) : SubId(unused[j][1]) < SubId(Last(stitched_path))

\* C8: a joined subpath loses its leading point only if that point has the
\* coordinates of the chain's last point, otherwise every one of its points
\* is appended; and [(0,0),(10,0)], [(10.1,0),(20,0)] are stitched into the
\* one toolpath [(0,0),(10,0),(10.1,0),(20,0)].
GapScenarioResult == << <<<<0, 0>>, <<200, 0>>, <<202, 0>>, <<400, 0>>>> >>

C8_Removed == CHOOSE i \in 1..Len(unused) : unused' = Without(unused, i)

C8_LeadingPointKept ==
    [][/\ (pc = "stitch_inner" /\ unused' # unused) =>
             LET n    == Len(unused[C8_Removed])
                 grew == Len(stitched_path') - Len(stitched_path)
                 head == stitched_path'[Len(stitched_path) + 1]
             IN  /\ grew \in {n, n - 1}
                 /\ grew = n - 1 =>
                        \E e \in {unused[C8_Removed][1], unused[C8_Removed][n]} :
                            /\ XY(e) = XY(Last(stitched_path))
                            /\ n >= 2 => head # e
                 /\ grew = n => Pos(head) \in {1, n}
       /\ (pc' = "stitch_done" /\ Untagged(subpaths') = GapScenario) =>
             Untagged(stitched') = GapScenarioResult]_vars

\* the scenario of the claim has been stitched
C8_Witness ==
    /\ pc = "stitch_done"
    /\ Untagged(subpaths) = GapScenario
    /\ Len(stitched) = 1 /\ Len(stitched[1]) = 4

\* C9: the call terminates with the pool empty: every step of the loops
\* lowers a natural-number measure of the work left, which is zero exactly
\* at the return; the call returns no toolpath for an empty list and between
\* 1 and n toolpaths for n subpaths; every chain that ends adds exactly
\* itself to the result, and nothing else changes the result.
C9_WorkLeft ==
    CASE pc = "stitch_call"  -> 3 * Len(subpaths) + 4
      [] pc = "stitch_inner" -> 3 * Len(unused) + 3
      [] pc = "stitch_outer" -> 3 * Len(unused) + 2
      [] OTHER               -> 0

C9_Returned ==
    /\ unused = <<>>
    /\ Len(subpaths) = 0 => stitched = <<>>
    /\ Len(subpaths) >= 1 => Len(stitched) >= 1 /\ Len(stitched) <= Len(subpaths)

C9_Terminates ==
    [][/\ C9_WorkLeft' < C9_WorkLeft
       /\ pc' = "stitch_done" => C9_Returned'
       /\ IF pc = "stitch_inner" /\ pc' = "stitch_outer"
          THEN stitched' = stitched \o <<stitched_path>>
          ELSE pc # "stitch_call" => stitched' = stitched]_vars

\* a call with the largest number of subpaths has returned more than one
\* toolpath, one of them a chain of several subpaths
C9_Witness ==
    /\ pc = "stitch_done"
    /\ Len(subpaths) = MaxSubpaths
    /\ Len(stitched) > 1
    /\ Len(stitched) < Len(subpaths)

(***************************************************************************)
(* Properties of get_paths_by_color.                                       *)
(***************************************************************************)
\* the styles of the elements whose points are in a returned value
SourceStyles(paths) ==
    UNION {UNION {{paths[g][t][k][3] : k \in 1..Len(paths[g][t])} :
                      t \in 1..Len(paths[g])} : g \in 1..Len(paths)}

C1_Unstroked(style) ==
    \/ ~style.has_stroke
    \/ style.stroke.text = ""
    \/ style.stroke.text = "none"

\* C1: a selected path whose style has no stroke property, or whose stroke
\* is empty or 'none', adds nothing to either list, and no point of the
\* returned cut or score paths comes from such a path.
C1_UnstrokedDiscarded ==
    [][/\ (seen' = seen + 1 /\ element'.is_path /\ C1_Unstroked(element'.style)) =>
             /\ all_black_subpaths' = all_black_subpaths
             /\ all_red_subpaths' = all_red_subpaths
       /\ pc' = "paths_done" =>
             \A style \in SourceStyles(cut_paths') \cup SourceStyles(score_paths') :
                 ~C1_Unstroked(style)]_vars

\* C2: a path whose stroke is the colour (r,g,b) goes to the cut list
\* exactly when r, g and b are all below 20, to the score list exactly when
\* r is above 200 and g and b are below 50, and to neither otherwise;
\* (19,19,19) is cut, (255,0,0) and (201,49,49) are score, (21,21,21) and
\* (199,49,49) are neither; the returned paths hold the same.
C2_Cut(c) == c[1] < 20 /\ c[2] < 20 /\ c[3] < 20

C2_Score(c) == c[1] > 200 /\ c[2] < 50 /\ c[3] < 50

C2_Examples ==
    /\ C2_Cut(<<19, 19, 19>>)
    /\ ~C2_Cut(<<21, 21, 21>>) /\ ~C2_Score(<<21, 21, 21>>)
    /\ C2_Score(<<255, 0, 0>>)
    /\ C2_Score(<<201, 49, 49>>)
    /\ ~C2_Cut(<<199, 49, 49>>) /\ ~C2_Score(<<199, 49, 49>>)

C2_ColorThresholds ==
    [][/\ C2_Examples
       /\ (seen' = seen + 1 /\ element'.is_path /\ element'.style.has_stroke
             /\ element'.style.stroke.text = "rgb" /\ element'.d # <<>>) =>
             LET c == element'.style.stroke.rgb
             IN  /\ C2_Cut(c) <=> Len(all_black_subpaths') > Len(all_black_subpaths)
                 /\ C2_Score(c) <=> Len(all_red_subpaths') > Len(all_red_subpaths)
       /\ pc' = "paths_done" =>
             /\ \A style \in SourceStyles(cut_paths') :
                    style.has_stroke => C2_Cut(style.stroke.rgb)
             /\ \A style \in SourceStyles(score_paths') :
                    style.has_stroke => C2_Score(style.stroke.rgb)]_vars

\* a path stroked (201,49,49) has been returned among the score paths
C2_Witness ==
    /\ pc = "paths_done"
    /\ element.style.stroke.rgb = <<201, 49, 49>>
    /\ score_paths # <<<<>>>>
    /\ cut_paths = <<<<>>>>

\* C10: the lists handed to the stitcher are in ascending order of first
\* point (x, then y), and the returned paths are the same for every order
\* in which the same subpaths could have been collected.
C10_Ascending(list) ==
    \A i \in 1..Len(list) - 1 :
        \/ list[i][1][1] < list[i + 1][1][1]
        \/ list[i][1][1] = list[i + 1][1][1] /\ list[i][1][2] <= list[i + 1][1][2]

C10_Reordered(list) ==
    {[i \in 1..Len(list) |-> list[f[i]]] : f \in Permutations(1..Len(list))}

C10_SameResult(collected, result) ==
    \A other \in C10_Reordered(collected) :
        Untagged(SmartStitch(SortByFirstPoint(other))) = Untagged(result)

C10_DistinctStarts(list) ==
    \A i, j \in 1..Len(list) : XY(list[i][1]) = XY(list[j][1]) => i = j

C10_OrderIndependent ==
    [][(pc = "paths_loop" /\ pc' = "paths_done") =>
          /\ C10_Ascending(all_black_subpaths') /\ C10_Ascending(all_red_subpaths')
          /\ C10_SameResult(all_black_subpaths, cut_paths'[1])
          /\ C10_SameResult(all_red_subpaths, score_paths'[1])]_vars

\* C10 as amended: ... the returned paths of a role are the same for every
\* order of collection provided no two subpaths of the role have the same
\* first point.
C10_OrderIndependentDistinctStarts ==
    [][(pc = "paths_loop" /\ pc' = "paths_done") =>
          /\ C10_Ascending(all_black_subpaths') /\ C10_Ascending(all_red_subpaths')
          /\ C10_DistinctStarts(all_black_subpaths) =>
                 C10_SameResult(all_black_subpaths, cut_paths'[1])
          /\ C10_DistinctStarts(all_red_subpaths) =>
                 C10_SameResult(all_red_subpaths, score_paths'[1])]_vars

\* subpaths with distinct first points that were collected out of order
\* have been sorted and stitched
C10_Witness ==
    /\ pc = "paths_done"
    /\ Len(all_black_subpaths) >= 3
    /\ C10_DistinctStarts(all_black_subpaths)
    /\ element.d[1].params = <<0, 0>>
    /\ Len(cut_paths[1]) < Len(all_black_subpaths)

(***************************************************************************)
(* Properties of the dialog (checked under SpecDialog).                    *)
(***************************************************************************)
C3_CutClassified(style) ==
    style.has_stroke /\ style.stroke.text = "rgb" /\ C2_Cut(style.stroke.rgb)

C3_ScoreClassified(style) ==
    style.has_stroke /\ style.stroke.text = "rgb" /\ C2_Score(style.stroke.rgb)

\* the pair (cut, score) keeps the roles: every point of cut comes from a
\* path classified Cut, every point of score from a path classified Score
C3_RolesKept(cut, score) ==
    /\ \A style \in SourceStyles(cut) : C3_CutClassified(style)
    /\ \A style \in SourceStyles(score) : C3_ScoreClassified(style)

\* C3: a path's role never changes.  After extraction, stitching, centering
\* and any drag translations, every point of the stored cut toolpaths comes
\* from a path classified Cut and every point of the stored score toolpaths
\* from a path classified Score (so no toolpath joins subpaths of the two
\* roles); the same holds of the toolpaths a generation carries to
\* set_gcode_text and of those the displayed G-code was made from.
C3_RoleFixed ==
    /\ C3_RolesKept(generated_cut_paths, generated_score_paths)
    /\ \A k \in DOMAIN idle : C3_RolesKept(idle[k].cut_paths, idle[k].score_paths)
    /\ \A i \in DOMAIN threads :
           threads[i].gcode # <<>> => C3_RolesKept(threads[i].gcode[1], threads[i].gcode[2])
    /\ gcode_text # <<>> => C3_RolesKept(gcode_text[1], gcode_text[2])

\* a selection with both roles was centred, its G-code was generated and
\* shown, and the toolpaths were then dragged away from where they were
C3_Witness ==
    /\ SourceStyles(generated_cut_paths) # {}
    /\ SourceStyles(generated_score_paths) # {}
    /\ gcode_text # <<>>
    /\ gcode_text[1] # generated_cut_paths
    /\ gcode_text[2] # generated_score_paths
    /\ ~is_object_dragging
    /\ idle = <<>>
    /\ \A i \in DOMAIN threads : threads[i].pc = "done"

(***************************************************************************)
(* Properties of what get_paths_by_color hands to the stitcher.            *)
(***************************************************************************)
\* C11: no subpath with fewer than 2 points reaches the stitcher: the lists
\* smart_stitch_subpaths is called with hold no single-point subpath, and
\* no returned toolpath consists of a single point (stated for selections
\* whose returned points all come from stroked paths).
C11_SinglePointDropped ==
    (/\ pc = "paths_done"
     /\ \A style \in SourceStyles(cut_paths) \cup SourceStyles(score_paths) :
            ~C1_Unstroked(style)) =>
        /\ \A i \in DOMAIN all_black_subpaths : Len(all_black_subpaths[i]) >= 2
        /\ \A i \in DOMAIN all_red_subpaths : Len(all_red_subpaths[i]) >= 2
        /\ \A t \in DOMAIN cut_paths[1] : Len(cut_paths[1][t]) >= 2
        /\ \A t \in DOMAIN score_paths[1] : Len(score_paths[1][t]) >= 2


(***************************************************************************)
(* Properties of _extract_path_data (checked under SpecExtract).           *)
(***************************************************************************)
\* the commands the loop has taken that carry letter c
Taken(c) == {i \in 1..consumed : arr[i].cmd = c}

StartsWithMove == arr # <<>> /\ arr[1].cmd = "M"

\* C12: for a command sequence that begins with a move, the number of
\* subpaths returned equals the number of move commands in the sequence;
\* while the loop runs, the stored subpaths are one fewer than the moves
\* taken (the subpath of the last move is still open).
C12_SubpathPerMove ==
    StartsWithMove =>
        /\ (pc = "extract" /\ consumed >= 1) =>
               /\ Len(extractor.subpaths) = Cardinality(Taken("M")) - 1
               /\ extractor.current # <<>>
        /\ pc = "extract_done" =>
               Len(returned) = Cardinality(Taken("M"))

\* a returned call with two moves and one other command
C12_Witness ==
    /\ pc = "extract_done"
    /\ StartsWithMove
    /\ Cardinality(Taken("M")) = 2
    /\ Len(arr) = 3
    /\ Len(returned) = 2

\* the iteration for the command at position consumed + 1, of letter c
Iterates(c) ==
    /\ pc = "extract"
    /\ consumed < Len(arr)
    /\ arr[consumed + 1].cmd = c
    /\ consumed' = consumed + 1

\* C13: a close command on a non-empty current subpath appends exactly one
\* point, equal to the subpath's first point; on an empty one it appends
\* nothing; in both cases no subpath is stored or started.
C13_CloseAppendsFirst ==
    [][Iterates("Z") =>
          /\ extractor'.subpaths = extractor.subpaths
          /\ extractor.current = <<>> => extractor'.current = <<>>
          /\ extractor.current # <<>> =>
                 /\ Len(extractor'.current) = Len(extractor.current) + 1
                 /\ SubSeq(extractor'.current, 1, Len(extractor.current)) = extractor.current
                 /\ extractor'.current[Len(extractor'.current)] = extractor.current[1]]_vars

\* Z L Z has been taken: the first close found nothing to close, the second
\* closed the one-point subpath of the line
C13_Witness ==
    /\ consumed = 3
    /\ arr[1].cmd = "Z" /\ arr[2].cmd = "L" /\ arr[3].cmd = "Z"
    /\ extractor.subpaths = <<>>
    /\ Len(extractor.current) = 2
    /\ extractor.current[2] = extractor.current[1]

Curves == {"C", "S", "Q", "T"}

Clearing == {"M", "L", "H", "V", "A"}

\* a prior control point is held only if a C, S, Q or T has been taken with
\* no M, L, H, V or A after it
C14_ControlOnlyAfterCurve ==
    (pc = "extract" /\ extractor.last_ctrl # None) =>
        \E j \in 1..consumed :
            /\ arr[j].cmd \in Curves
            /\ \A k \in (j + 1)..consumed : arr[k].cmd \notin Clearing

\* C14: the flattener call of an S or T command has as its first control
\* point 2 * last - last_ctrl when a prior control point is held and last
\* itself otherwise; the control point held after a C or S is the cubic's
\* second control point, after a Q or T the quadratic's control point, and
\* after an M, L, H, V or A none; a prior control point is held only if a
\* C, S, Q or T has been taken with no M, L, H, V or A after it.
C14_SmoothControl ==
    [][/\ (Iterates("S") \/ Iterates("T")) =>
              /\ extractor'.call[1] = extractor.last
              /\ extractor.last_ctrl # None =>
                     /\ extractor'.call[2][1] = 2 * extractor.last[1] - extractor.last_ctrl[1]
                     /\ extractor'.call[2][2] = 2 * extractor.last[2] - extractor.last_ctrl[2]
              /\ extractor.last_ctrl = None => extractor'.call[2] = extractor.last
       /\ (Iterates("C") \/ Iterates("S")) => extractor'.last_ctrl = extractor'.call[3]
       /\ (Iterates("Q") \/ Iterates("T")) => extractor'.last_ctrl = extractor'.call[2]
       /\ (\E c \in Clearing : Iterates(c)) => extractor'.last_ctrl = None
       /\ C14_ControlOnlyAfterCurve']_vars

\* C S has been taken and the S was flattened from a reflected control point
\* different from the current point
C14_Witness ==
    /\ consumed >= 2
    /\ arr[consumed - 1].cmd = "C"
    /\ arr[consumed].cmd = "S"
    /\ extractor.call # None
    /\ extractor.call[2] # extractor.call[1]

\* the end point of the arc command at position i of arr, in coordinate units
ArcEnd(i) == <<arr[i].params[6] \div scale, arr[i].params[7] \div scale>>

\* C15: an arc command appends exactly 5 points to the current subpath, the
\* i-th of them i/5 of the way from the current point to the arc's end
\* point (so the fifth is the end point), whatever the radii, rotation and
\* flags; the current point becomes the end point.
C15_ArcFivePoints ==
    [][Iterates("A") =>
          LET n == Len(extractor.current)
              end == ArcEnd(consumed + 1)
          IN  /\ Len(extractor'.current) = n + 5
              /\ SubSeq(extractor'.current, 1, n) = extractor.current
              /\ \A i \in 1..5 : \A k \in 1..2 :
                     5 * (extractor'.current[n + i][k] - extractor.last[k])
                         = i * (end[k] - extractor.last[k])
              /\ extractor'.current[n + 5][1] = end[1]
              /\ extractor'.current[n + 5][2] = end[2]
              /\ extractor'.last = end
              /\ extractor'.subpaths = extractor.subpaths]_vars

\* an arc with unequal radii, a rotation and a flag set has been taken from
\* a current point other than its end point
C15_Witness ==
    /\ consumed >= 2
    /\ arr[consumed].cmd = "A"
    /\ arr[consumed].params[1] # arr[consumed].params[2]
    /\ arr[consumed].params[3] # 0
    /\ arr[consumed].params[4] = 1
    /\ Len(extractor.current) >= 6
    /\ extractor.last = ArcEnd(consumed)
    /\ extractor.current[Len(extractor.current) - 4][1] # extractor.last[1]

Supported == {"M", "L", "H", "V", "C", "S", "Q", "T", "A", "Z"}

IsSupported(c) == c.cmd \in Supported

\* the coordinates of a list of subpaths, without the marks
Coordinates(list) ==
    [i \in DOMAIN list |-> [k \in DOMAIN list[i] |-> <<list[i][k][1], list[i][k][2]>>]]

\* what the call returns for arr equals what it returns for arr without
\* its unsupported commands
C16_AsIfAbsent ==
    pc = "extract_done" =>
        Coordinates(returned)
            = Coordinates(ExtractResult(
                  ExtractLoop(ExtractStart, SelectSeq(arr, IsSupported), 1, 0)))

\* the iteration for an unsupported command changes nothing the loop holds
C16_StateKept ==
    [][(/\ pc = "extract"
        /\ consumed < Len(arr)
        /\ ~IsSupported(arr[consumed + 1])
        /\ consumed' = consumed + 1) =>
           /\ extractor'.subpaths = extractor.subpaths
           /\ extractor'.current = extractor.current
           /\ extractor'.last = extractor.last
           /\ extractor'.last_ctrl = extractor.last_ctrl]_vars

\* C16: the iteration for a command whose letter is none of M, L, H, V, C,
\* S, Q, T, A, Z leaves the stored subpaths, the current subpath, the current
\* point and the prior control point as they were, and the call returns what
\* it returns for the sequence without such commands.
C16_UnsupportedSkipped == C16_StateKept /\ []C16_AsIfAbsent

\* a call has returned for a curve, an unsupported command and a smooth
\* curve that reflected the first curve's control point
C16_Witness ==
    /\ pc = "extract_done"
    /\ Len(arr) = 3
    /\ arr[1].cmd = "C"
    /\ ~IsSupported(arr[2])
    /\ arr[3].cmd = "S"
    /\ extractor.call[2] # extractor.call[1]
    /\ Len(returned) = 1

(***************************************************************************)
(* Properties of _flatten_cubic_bezier (checked under SpecFlatten).        *)
(***************************************************************************)
AllEqual(a) == a.p0 = a.p1 /\ a.p1 = a.p2 /\ a.p2 = a.p3

C18_Threshold2 == Squared(flatten_args.flatness)

\* twice the signed area of the triangle a, b, p
C18_Cross(p, a, b) == (b[1] - a[1]) * (p[2] - a[2]) - (b[2] - a[2]) * (p[1] - a[1])

C18_Dot(p, a, b) == (p[1] - a[1]) * (b[1] - a[1]) + (p[2] - a[2]) * (b[2] - a[2])

C18_LengthSq(a, b) == (b[1] - a[1]) * (b[1] - a[1]) + (b[2] - a[2]) * (b[2] - a[2])

\* p is closer than the threshold to the chord from a to b: to its nearer
\* end if the foot of the perpendicular falls outside the chord (or the
\* chord is a point), to the foot otherwise
C18_Within(p, a, b) ==
    IF a = b \/ C18_Dot(p, a, b) <= 0 THEN C18_LengthSq(a, p) < C18_Threshold2
    ELSE IF C18_Dot(p, a, b) >= C18_LengthSq(a, b) THEN C18_LengthSq(b, p) < C18_Threshold2
    ELSE C18_Cross(p, a, b) * C18_Cross(p, a, b) < C18_Threshold2 * C18_LengthSq(a, b)

C18_BothWithin(seg) ==
    /\ C18_Within(seg[2], seg[1], seg[4])
    /\ C18_Within(seg[3], seg[1], seg[4])

\* left and right are the two halves of seg at parameter 0.5
C18_SplitAtHalf(seg, left, right) ==
    /\ left[1] = seg[1]
    /\ right[4] = seg[4]
    /\ right[1] = left[4]
    /\ \A k \in 1..2 :
           /\ 2 * left[2][k] = seg[1][k] + seg[2][k]
           /\ 4 * left[3][k] = seg[1][k] + 2 * seg[2][k] + seg[3][k]
           /\ 8 * left[4][k] = seg[1][k] + 3 * seg[2][k] + 3 * seg[3][k] + seg[4][k]
           /\ 4 * right[2][k] = seg[2][k] + 2 * seg[3][k] + seg[4][k]
           /\ 2 * right[3][k] = seg[3][k] + seg[4][k]

\* the call of recursive that runs next decides
C18_Decides ==
    /\ pc = "flatten"
    /\ calls # <<>>
    /\ pc' = "flatten"

\* a call returns its two end points exactly when both interior control
\* points are within the threshold of its chord, and otherwise calls itself
\* on the two halves at parameter 0.5, the left one first
C18_AcceptOrSplit ==
    [][C18_Decides =>
          LET seg == Head(calls).seg
          IN  IF C18_BothWithin(seg)
              THEN /\ accepted' = Append(accepted, seg)
                   /\ calls' = Tail(calls)
              ELSE /\ accepted' = accepted
                   /\ Len(calls') = Len(calls) + 1
                   /\ SubSeq(calls', 3, Len(calls')) = Tail(calls)
                   /\ C18_SplitAtHalf(seg, calls'[1].seg, calls'[2].seg)]_vars

\* the returned list is made of the accepted segments, in order: the first
\* end point of each and the last end point of the last; each of them has
\* both interior control points within the threshold of its chord
C18_AcceptedAreFlat ==
    pc = "flatten_done" =>
        /\ Len(flatten_result) = Len(accepted) + 1
        /\ \A i \in DOMAIN accepted :
               /\ flatten_result[i] = accepted[i][1]
               /\ flatten_result[i + 1] = accepted[i][4]
               /\ C18_BothWithin(accepted[i])

\* C18: the recursion returns a segment's two end points without subdividing
\* exactly when both interior control points lie within the flatness
\* threshold of the chord between its end points, and otherwise splits the
\* segment at parameter 0.5 into two segments it processes recursively;
\* every segment that makes up the returned list has both interior control
\* points within the threshold of its chord.
C18_FlatOrSplit == C18_AcceptOrSplit /\ []C18_AcceptedAreFlat

\* a curve has been returned after two levels of splitting, from more than
\* two accepted segments
C18_Witness ==
    /\ pc = "flatten_done"
    /\ Len(accepted) = 4
    /\ Len(flatten_result) = 5
    /\ \E i \in DOMAIN accepted : accepted[i][2] # accepted[i][1]

\* C19: when the four control points are not all equal, the returned list
\* has no two equal consecutive points.
C19_NoRepeatedPoint ==
    (pc = "flatten_done" /\ ~AllEqual(flatten_args)) =>
        \A i \in 1..(Len(flatten_result) - 1) : flatten_result[i] # flatten_result[i + 1]

(***************************************************************************)
(* Properties of center_paths_on_bed (checked under SpecCenter).           *)
(***************************************************************************)
\* the coordinates on axis k (1 = x, 2 = y) of all points of a list of paths
C20_Coordinates(list, k) ==
    UNION {UNION {{list[i][j][n][k] : n \in DOMAIN list[i][j]} :
                      j \in DOMAIN list[i]} : i \in DOMAIN list}

\* lo and hi are the least and the greatest member of S
C20_Spans(S, lo, hi) ==
    /\ lo \in S
    /\ hi \in S
    /\ \A v \in S : lo <= v /\ v <= hi

C20_HasPoints ==
    C20_Coordinates(center_args.cut_paths \o center_args.score_paths, 1) # {}

\* C20: when the cut and score paths together hold at least one point, the
\* bounding box of all returned points has its centre at (bed_w / 2,
\* bed_h / 2): on each axis the least and the greatest coordinate add up to
\* the bed's size.
C20_CentredOnBed ==
    (pc = "center_done" /\ C20_HasPoints) =>
        LET xs == C20_Coordinates(center_result[1] \o center_result[2], 1)
            ys == C20_Coordinates(center_result[1] \o center_result[2], 2)
        IN  /\ \E lo \in xs, hi \in xs :
                   C20_Spans(xs, lo, hi) /\ lo + hi = center_args.bed_w
            /\ \E lo \in ys, hi \in ys :
                   C20_Spans(ys, lo, hi) /\ lo + hi = center_args.bed_h

\* cut and score paths that both hold points, wider than they are high, have
\* been moved onto the default bed
C20_Witness ==
    /\ pc = "center_done"
    /\ C20_Coordinates(center_args.cut_paths, 1) # {}
    /\ C20_Coordinates(center_args.score_paths, 1) # {}
    /\ center_args.bed_w = 6000
    /\ center_args.bed_h = 4000
    /\ center_result[1] # center_args.cut_paths
    /\ \E x \in C20_Coordinates(center_result[1], 1) : x < 3000
    /\ \E x \in C20_Coordinates(center_result[2], 1) : x > 3000

\* list and moved have the same paths, subpaths and points in the same
\* order, the points of moved bearing the tags of those of list
C21_SameShape(list, moved) ==
    /\ Len(moved) = Len(list)
    /\ \A i \in DOMAIN list :
           /\ Len(moved[i]) = Len(list[i])
           /\ \A j \in DOMAIN list[i] :
                  /\ Len(moved[i][j]) = Len(list[i][j])
                  /\ \A n \in DOMAIN list[i][j] : moved[i][j][n][3] = list[i][j][n][3]

\* what each point of moved is away from the point of list in its place
C21_Offsets(list, moved) ==
    UNION {UNION {{<<moved[i][j][n][1] - list[i][j][n][1],
                     moved[i][j][n][2] - list[i][j][n][2]>> : n \in DOMAIN list[i][j]} :
                      j \in DOMAIN list[i]} : i \in DOMAIN list}

C21_Translated ==
    pc = "center_done" =>
        /\ C21_SameShape(center_args.cut_paths, center_result[1])
        /\ C21_SameShape(center_args.score_paths, center_result[2])
        /\ Cardinality(C21_Offsets(center_args.cut_paths, center_result[1]) \cup
                       C21_Offsets(center_args.score_paths, center_result[2])) <= 1

C21_InputKept == [][center_args' = center_args]_vars

\* C21: center_paths_on_bed is a pure translation: the returned lists have
\* the paths, subpaths and points of the given ones in number and order,
\* every returned point is the given point in its place plus one offset
\* (dx, dy), the same for every point of every subpath of both roles; and
\* the given lists are not modified.
C21_PureTranslation == C21_InputKept /\ []C21_Translated

\* cut and score lists that both hold points, the cut list with two paths of
\* which one has two subpaths, have been moved
C21_Witness ==
    /\ pc = "center_done"
    /\ Len(center_args.cut_paths) = 2
    /\ \E i \in DOMAIN center_args.cut_paths : Len(center_args.cut_paths[i]) = 2
    /\ C20_Coordinates(center_args.score_paths, 1) # {}
    /\ C21_Offsets(center_args.cut_paths, center_result[1]) # {}
    /\ <<0, 0>> \notin C21_Offsets(center_args.cut_paths, center_result[1])

(***************************************************************************)
(* Properties of the dialog's placement and generation (checked under      *)
(* SpecDialog unless said otherwise).                                      *)
(***************************************************************************)
\* C22: when the selection yields no cut or score point at all,
\* center_paths_on_bed returns the lists it is given, and once
\* _auto_center_paths has run the message it logged says that there is
\* nothing to centre, not that the objects were centred.
C22_NothingToPlace ==
    LET paths == GetPathsByColor(selection)
    IN  (pc = "dialog" /\ C20_Coordinates(paths[1] \o paths[2], 1) = {}) =>
            /\ CenterPathsOnBed(paths[1], paths[2], bed_w, bed_h) = paths
            /\ logged # "" => /\ logged = "No selectable objects found in SVG to center."
                              /\ logged # "Objects centered."

(***************************************************************************)
(* Properties of the boundary check (checked under SpecPlace).             *)
(***************************************************************************)
\* the points (x, y) of a list of paths
C23_Points(list) ==
    UNION {UNION {{<<list[i][j][n][1], list[i][j][n][2]>> : n \in DOMAIN list[i][j]} :
                      j \in DOMAIN list[i]} : i \in DOMAIN list}

C23_Stored == C23_Points(stored_paths[1]) \cup C23_Points(stored_paths[2])

C23_Checked == pc \in {"checked", "centered_checked"}

\* C23: the boundary check reports out-of-bounds exactly when some point
\* (x, y) of the stored cut or score toolpaths has x < margin,
\* x > bed_w - margin, y < margin or y > bed_h - margin, so that points on
\* the edge of the envelope are inside; on the 300 by 200 mm bed with margin
\* 5 mm a point (2, 100) mm is reported and a point (10, 100) mm alone is
\* not.
C23_BoundsReported ==
    C23_Checked =>
        LET w == place_args.bed_w
            h == place_args.bed_h
            m == place_args.margin
        IN  /\ out_of_bounds <=>
                   \E pt \in C23_Stored :
                       pt[1] < m \/ pt[1] > w - m \/ pt[2] < m \/ pt[2] > h - m
            /\ (w = 6000 /\ h = 4000 /\ m = 100) =>
                   /\ <<40, 2000>> \in C23_Stored => out_of_bounds = TRUE
                   /\ C23_Stored = {<<200, 2000>>} => out_of_bounds = FALSE

\* toolpaths whose points lie on the edge of the default envelope have been
\* checked as they were stored, and were not reported
C23_Witness ==
    /\ pc = "checked"
    /\ place_args.bed_w = 6000 /\ place_args.bed_h = 4000 /\ place_args.margin = 100
    /\ C23_Stored = {<<100, 100>>, <<5900, 3900>>}
    /\ out_of_bounds = FALSE

(***************************************************************************)
(* Properties of generate_gcode_bg (checked under SpecDialog).             *)
(***************************************************************************)
\* some point of the dialog's stored toolpaths is outside the envelope
C24_Outside ==
    \E pt \in C23_Points(generated_cut_paths) \cup C23_Points(generated_score_paths) :
        pt[1] < margin \/ pt[1] > bed_w - margin \/ pt[2] < margin \/ pt[2] > bed_h - margin

\* C24: when the boundary check of a generation finds a point outside the
\* envelope, the stored cut and score toolpaths stay as they are and the
\* generation goes on to hand them to GCodeLogic.generate.
C24_ReportedOnly ==
    [][\A i \in DOMAIN threads :
           (threads[i].pc = "check" /\ threads'[i].pc # "check" /\ C24_Outside) =>
               /\ generated_cut_paths' = generated_cut_paths
               /\ generated_score_paths' = generated_score_paths
               /\ threads'[i].pc = "generate"]_vars

(***************************************************************************)
(* Properties of ConfigManager (checked under SpecConfig).                 *)
(***************************************************************************)
\* the file holds a JSON object with the member key
C25_Stored(file, key) ==
    /\ file.state = "json"
    /\ file.text.json = "object"
    /\ key \in DOMAIN file.text.members

\* save_config leaves the stored 'default' and 'last_export' entries as they are
C25_EntriesKept ==
    [][pc' = "config_saved" =>
          \A key \in {"default", "last_export"} :
              C25_Stored(config_file, key) =>
                  /\ C25_Stored(config_file', key)
                  /\ config_file'.text.members[key] = config_file.text.members[key]]_vars

\* load_config after save_config(c) returns c's value for every key of c and
\* the built-in default for every other default key
C25_Returned ==
    pc = "config_saved_loaded" =>
        /\ config_loaded.py = "dict"
        /\ \A key \in DOMAIN config_saved.items :
               /\ key \in DOMAIN config_loaded.items
               /\ config_loaded.items[key] = config_saved.items[key]
        /\ \A key \in {"bed_width", "safety_margin", "units"} \ DOMAIN config_saved.items :
               /\ key \in DOMAIN config_loaded.items
               /\ config_loaded.items[key] =
                      IF key = "units" THEN [py |-> "int", v |-> 0]
                      ELSE [py |-> "str", v |-> IF key = "bed_width" THEN "300" ELSE "5"]

\* C25: whatever the config file held before (nothing, text that is not
\* JSON, an old flat configuration, or the last/default structure), after
\* save_config(c) a following load_config() returns a dictionary with c's
\* value for every key of c and the built-in default for every default key
\* c lacks; and save_config leaves the stored 'default' and 'last_export'
\* entries unchanged.
C25_RoundTrip == C25_EntriesKept /\ []C25_Returned

\* a configuration without 'units' and with a key that has no default has
\* been saved over a file that held a default of its own and a last export,
\* and loaded again
C25_Witness ==
    /\ pc = "config_saved_loaded"
    /\ "units" \notin DOMAIN config_saved.items
    /\ "z_plunge_speed" \in DOMAIN config_loaded.items
    /\ C25_Stored(config_file, "last_export")
    /\ C25_Stored(config_file, "default")
    /\ config_file.text.members["default"] =
           JsonDump(PyDict([bed_width |-> PyStr("400"), safety_margin |-> PyStr("5"),
                            units |-> PyInt(1)]))

\* start_progress has been called and no stop_progress since
C26_Shown == ~generate_button /\ ~auto_center_button /\ progress_haze

\* stop_progress has been called once for every generation started, and
\* the buttons are sensitive and the haze is hidden
C26_Stopped ==
    /\ stops = Len(threads)
    /\ generate_button /\ auto_center_button /\ ~progress_haze

\* C26: every start of a generation (start_progress, which disables the
\* Generate and Auto Center buttons and shows the haze) is eventually
\* followed by stop_progress, which enables both buttons and hides the
\* haze, whatever the outcome of the thread: in the end stop_progress has
\* been called once for every generation started.
C26_StartThenStop == C26_Shown ~> C26_Stopped

\* two generations have been started, the second one aborted by the boundary
\* check, and stop_progress has been called for each
C26_Witness ==
    /\ Len(threads) = 2
    /\ \A i \in DOMAIN threads : threads[i].pc = "done"
    /\ C26_Stopped
    /\ C24_Outside

(***************************************************************************)
(* Properties of the preview's view (checked under SpecView).              *)
(***************************************************************************)
\* gcode_preview_zoom is within [0.1, 10.0]
C27_ZoomInRange ==
    ZoomUnit <= 10 * gcode_preview_zoom /\ gcode_preview_zoom <= 10 * ZoomUnit

\* a scroll event in a direction other than up or down changes neither the
\* zoom nor the pan offset
C27_OtherScrollKeeps ==
    (scrolled'[1] = scrolled[1] + 1 /\ scrolled'[2] \notin {"UP", "DOWN"}) =>
        /\ gcode_preview_zoom' = gcode_preview_zoom
        /\ gcode_preview_offset' = gcode_preview_offset

\* a middle-button press, a motion while the view is panned, or a
\* middle-button release
C27_PanStep ==
    \/ \E ev \in MousePoints : PanPress(ev) \/ PanMotion(ev)
    \/ PanRelease

\* panning with the middle button changes neither the zoom nor the stored
\* toolpaths
C27_PanKeeps ==
    C27_PanStep =>
        /\ gcode_preview_zoom' = gcode_preview_zoom
        /\ generated_cut_paths' = generated_cut_paths
        /\ generated_score_paths' = generated_score_paths

\* C27: after any sequence of scroll, button and motion events on the
\* preview gcode_preview_zoom is within [0.1, 10.0]; a scroll in a direction
\* other than up or down changes neither the zoom nor the pan offset; and
\* middle-button panning changes the pan offset only, never the zoom or the
\* stored toolpaths.
C27_View ==
    /\ []C27_ZoomInRange
    /\ [][C27_OtherScrollKeeps]_vars
    /\ [][C27_PanKeeps]_vars

\* the zoom has been limited to 10.0 by the second of two scrolls up, which
\* moved the pan offset, and the view has then been panned
C27_Witness ==
    /\ scrolled = <<2, "UP">>
    /\ gcode_preview_zoom = 10 * ZoomUnit
    /\ gcode_preview_drag
    /\ gcode_preview_offset[2] # gcode_preview_last[2] - offset_y_base
    /\ events = MaxEvents

(***************************************************************************)
(* Properties of the generation threads (checked under SpecDialog).        *)
(***************************************************************************)
\* the generate_gcode_bg threads that have not returned
C28_Running == {i \in DOMAIN threads : threads[i].pc # "done"}

\* C28: generation requests are serialized: while a generate_gcode_bg thread
\* is still running no second one is started, so at most one thread is
\* running at any time.
C28_Serialized == Cardinality(C28_Running) <= 1

\* the stored toolpaths are not where centring puts them: an object drag
\* has translated them
C29_Translated ==
    /\ Truthy(generated_cut_paths) \/ Truthy(generated_score_paths)
    /\ <<generated_cut_paths, generated_score_paths>> # <<AutoCenterPaths[1], AutoCenterPaths[2]>>

\* set_gcode_text, run from the idle queue, leaves toolpaths that a drag has
\* translated as they are
C29_NotPutBack ==
    (/\ idle # <<>> /\ Head(idle).fn = "set_gcode_text" /\ idle' = Tail(idle)
     /\ C29_Translated) =>
        /\ generated_cut_paths' = generated_cut_paths
        /\ generated_score_paths' = generated_score_paths

\* the toolpaths a thread hands to GCodeLogic.generate are the ones its
\* boundary check has read
C29_GeneratedAsChecked ==
    \A i \in DOMAIN threads :
        (threads[i].pc = "generate" /\ threads'[i].pc = "schedule") =>
            threads'[i].gcode = threads[i].checked

\* C29: a drag translation is never lost: once an object drag has translated
\* the stored toolpaths, the set_gcode_text of a generation started before
\* the drag does not put the older toolpaths back; and the toolpaths passed
\* to the G-code generator are the ones that passed the bounds check.
C29_DragKept == [][C29_NotPutBack]_vars /\ [][C29_GeneratedAsChecked]_vars

(***************************************************************************)
(* Properties of centring followed by the boundary check (checked under    *)
(* SpecPlace).                                                             *)
(***************************************************************************)
\* the points of the collected geometry
C30_Points == C23_Points(place_args.cut_paths) \cup C23_Points(place_args.score_paths)

\* the geometry cannot fit: its bounding box is wider or higher than the
\* bed inside its margins
C30_CannotFit ==
    LET xs == {pt[1] : pt \in C30_Points}
        ys == {pt[2] : pt \in C30_Points}
    IN  \/ MaxOf(xs) - MinOf(xs) > place_args.bed_w - 2 * place_args.margin
        \/ MaxOf(ys) - MinOf(ys) > place_args.bed_h - 2 * place_args.margin

\* C30: right after center_paths_on_bed with a bed W by H and a margin m
\* (0 <= 2m <= W, H) the boundary check reports out-of-bounds if and only if
\* the bounding box of the geometry is wider than W - 2m or higher than
\* H - 2m.
C30_RejectsOnlyMisfit ==
    (/\ pc = "centered_checked"
     /\ C30_Points # {}
     /\ 0 <= place_args.margin
     /\ 2 * place_args.margin <= place_args.bed_w
     /\ 2 * place_args.margin <= place_args.bed_h) =>
        (out_of_bounds <=> C30_CannotFit)
====
